---- MODULE Spec2Model ----
(***************************************************************************)
(* State-machine model of the Super Metroid ROM loader (super-metroid/src  *)
(* lib.rs), its address map (rommap.rs) and its decompressor               *)
(* (compression.rs).                                                       *)
(*                                                                         *)
(* A byte source (the ROM image, or the input of decompress) is a record   *)
(* [len, bytes]: len is the slice length and bytes maps the offsets that   *)
(* hold a non-zero byte to that byte; every other offset below len reads 0.*)
(* Every fallible step returns a record whose field st is "ok", "err" (the *)
(* function returned Err) or "panic" (the thread panicked: an index out of *)
(* bounds, or an arithmetic overflow in a build with overflow checks).     *)
(***************************************************************************)
EXTENDS Integers, Sequences, FiniteSets, TLC

\* ------------------------------------------------------------------ bytes

Byte(s, a) == IF a \in DOMAIN s.bytes THEN s.bytes[a] ELSE 0

\* A cursor read of n bytes at offset a succeeds iff the slice holds them.
Avail(s, a, n) == a + n <= s.len

read_u16(s, a) == Byte(s, a) + 256 * Byte(s, a + 1)

read_u24(s, a) == Byte(s, a) + 256 * Byte(s, a + 1) + 65536 * Byte(s, a + 2)

\* ------------------------------------------------------------ rommap.rs

\* rom_addr! on operands that do not overflow.
rom_addr_value(bank, offset) == ((bank - 128) * 32768) + (offset - 32768)

\* rom_addr! with a u16 offset: offset - 0x8000 is a u16 subtraction, which
\* panics when overflow checks are compiled in (oc) and wraps otherwise.
rom_addr(oc, bank, offset) ==
    IF offset >= 32768
    THEN [st |-> "ok", v |-> rom_addr_value(bank, offset)]
    ELSE IF oc
         THEN [st |-> "panic", v |-> 0]
         ELSE [st |-> "ok", v |-> ((bank - 128) * 32768) + (offset + 32768)]

\* snes_to_rom_addr! on a u32 followed by the slice rom_data[v..] of a ROM of
\* length len.  A bank below 0x80 or an offset below 0x8000 overflows the u32
\* subtraction: a panic with overflow checks, and otherwise a wrapped index
\* of at least 0xFFC00000, past the end of any ROM, so the slice panics.
snes_to_rom_addr(addr, len) ==
    LET bank == (addr \div 65536) % 256
        offset == addr % 65536
    IN  IF bank >= 128 /\ offset >= 32768 /\ rom_addr_value(bank, offset) <= len
        THEN [st |-> "ok", v |-> rom_addr_value(bank, offset)]
        ELSE [st |-> "panic", v |-> 0]

\* rom_addr_to_snes16 with a slip: the mask keeps sixteen bits.
rom_addr_to_snes16_wide_mask(addr) == ((addr % 65536) + 32768) % 65536

rom_addr_to_snes16(addr) == ((addr % 32768) + 32768) % 65536

rom_addr_to_snes(addr) ==
    8388608 + ((((addr * 2) \div 65536) % 256) * 65536) + ((addr % 32768) + 32768)

ROOM_MDB_START == rom_addr_value(143, 37368)

TILESET_POINTER_TABLE == rom_addr_value(143, 59303)

TILESET_POINTER_TABLE_COUNT == 29

TILESET_ENTRY_BANK == 143

CRE_TILES == rom_addr_value(185, 32768)

CRE_TILE_TABLE == rom_addr_value(185, 41117)

\* ------------------------------------------------------- compression.rs

\* F applied to the value of x: a "let" that evaluates x once.
Let(x, F(_)) == CHOOSE y \in {F(v) : v \in {x}} : TRUE

\* copy_loop with a slip: the source range is taken from the output as it
\* stood before the command, so it may not run into the bytes being appended.
copy_loop_snapshot(out, addr, lo, hi, mask) ==
    IF lo >= hi
    THEN [st |-> "ok", out |-> out]
    ELSE IF addr + hi > Len(out)
         THEN [st |-> "panic", out |-> out]
         ELSE [st |-> "ok",
               out |-> out \o [i \in 1..(hi - lo) |->
                                 IF mask = 255
                                 THEN 255 - out[addr + lo + i]
                                 ELSE out[addr + lo + i]]]

\* copy_loop with a slip: a source position inside the bytes being appended is
\* read as the byte of the earlier output it repeats, so a byte is
\* complemented once however often it is copied.
copy_loop_plain_source(out, addr, lo, hi, mask) ==
    IF lo >= hi
    THEN [st |-> "ok", out |-> out]
    ELSE IF addr + lo >= Len(out)
         THEN [st |-> "panic", out |-> out]
         ELSE [st |-> "ok",
               out |-> out \o [i \in 1..(hi - lo) |->
                   LET v == out[addr + ((lo + i - 1) % (Len(out) - addr)) + 1]
                   IN  IF mask = 255 THEN 255 - v ELSE v]]

\* The loops "for i in lo..hi { out.push(out[addr + i] ^ mask) }" of the four
\* copy operations: out[addr + i] is read from the output as it stands when
\* byte i is pushed, and an index past its end panics.  The range is run as
\* its lower half followed by its upper half, which is the same sequence of
\* pushes.
RECURSIVE copy_loop(_, _, _, _, _)
copy_loop(out, addr, lo, hi, mask) ==
    IF lo >= hi
    THEN [st |-> "ok", out |-> out]
    ELSE IF hi = lo + 1
         THEN IF addr + lo >= Len(out)
              THEN [st |-> "panic", out |-> out]
              ELSE LET v == out[addr + lo + 1]
                   IN  [st |-> "ok",
                        out |-> Append(out, IF mask = 255 THEN 255 - v ELSE v)]
         ELSE Let(copy_loop(out, addr, lo, (lo + hi) \div 2, mask), LAMBDA first :
                IF first.st = "ok"
                THEN copy_loop(first.out, addr, (lo + hi) \div 2, hi, mask)
                ELSE first)

\* subtract_copy with a slip: the bytes are copied as they are.
subtract_copy_plain(s, p, out, size, mask) ==
    IF Avail(s, p, 1)
    THEN IF Byte(s, p) > Len(out)
         THEN [st |-> "panic", pos |-> p + 1, out |-> out]
         ELSE Let(copy_loop(out, Len(out) - Byte(s, p), 0, size, 0), LAMBDA c :
                [st |-> c.st, pos |-> p + 1, out |-> c.out])
    ELSE [st |-> "err", pos |-> p, out |-> out]

\* Op::SubtractCopy (mask 0) and Op::ExtendedCmd (mask 0xFF): the source
\* starts d bytes before the end of the output as it stands when d is read.
subtract_copy(s, p, out, size, mask) ==
    IF Avail(s, p, 1)
    THEN IF Byte(s, p) > Len(out)
         \* out.len() - d underflows: a panic with overflow checks, and
         \* otherwise an index near 2^64 that panics at i = 0.
         THEN [st |-> "panic", pos |-> p + 1, out |-> out]
         ELSE Let(copy_loop(out, Len(out) - Byte(s, p), 0, size, mask), LAMBDA c :
                [st |-> c.st, pos |-> p + 1, out |-> c.out])
    ELSE [st |-> "err", pos |-> p, out |-> out]

\* sigma_fill with a slip: the sum saturates at 0xFF instead of wrapping.
sigma_fill_saturating(s, p, out, size) ==
    IF Avail(s, p, 1)
    THEN [st |-> "ok", pos |-> p + 1,
          out |-> out \o [i \in 1..size |->
                            IF Byte(s, p) + ((i - 1) % 256) > 255
                            THEN 255
                            ELSE Byte(s, p) + ((i - 1) % 256)]]
    ELSE [st |-> "err", pos |-> p, out |-> out]

\* Op::SigmaFill: b + Wrapping(i as u8), the index truncated to a byte and
\* the sum wrapping at 256.
sigma_fill(s, p, out, size) ==
    IF Avail(s, p, 1)
    THEN [st |-> "ok", pos |-> p + 1,
          out |-> out \o [i \in 1..size |->
                            (Byte(s, p) + ((i - 1) % 256)) % 256]]
    ELSE [st |-> "err", pos |-> p, out |-> out]

\* The match on op: the operands are read at offset p of the source s.
apply_op(s, p, out, op, size) ==
    CASE op = 0 ->
           IF Avail(s, p, size)
           THEN [st |-> "ok", pos |-> p + size,
                 out |-> out \o [i \in 1..size |-> Byte(s, p + i - 1)]]
           ELSE [st |-> "err", pos |-> p, out |-> out]
      [] op = 1 ->
           IF Avail(s, p, 1)
           THEN [st |-> "ok", pos |-> p + 1,
                 out |-> out \o [i \in 1..size |-> Byte(s, p)]]
           ELSE [st |-> "err", pos |-> p, out |-> out]
      [] op = 2 ->
           IF Avail(s, p, 2)
           THEN [st |-> "ok", pos |-> p + 2,
                 out |-> out \o [i \in 1..size |-> Byte(s, p + ((i - 1) % 2))]]
           ELSE [st |-> "err", pos |-> p, out |-> out]
      [] op = 3 -> sigma_fill(s, p, out, size)
      [] op \in {4, 5} ->
           IF Avail(s, p, 2)
           THEN Let(copy_loop(out, read_u16(s, p), 0, size,
                              IF op = 5 THEN 255 ELSE 0), LAMBDA c :
                  [st |-> c.st, pos |-> p + 2, out |-> c.out])
           ELSE [st |-> "err", pos |-> p, out |-> out]
      [] op \in {6, 7} -> subtract_copy(s, p, out, size, IF op = 7 THEN 255 ELSE 0)

\* decompress_header with a slip: the extended size takes one bit of the
\* control byte instead of two.
decompress_header_narrow(s, a, b) ==
    IF b \div 32 = 7
    THEN IF Avail(s, a + 1, 1)
         THEN [st |-> "ok", op |-> (b \div 4) % 8,
               size |-> (((b % 2) * 256) + Byte(s, a + 1)) + 1,
               operands |-> a + 2]
         ELSE [st |-> "err", op |-> (b \div 4) % 8, size |-> 0,
               operands |-> a + 1]
    ELSE [st |-> "ok", op |-> b \div 32, size |-> (b % 32) + 1,
          operands |-> a + 1]

\* The header of a command whose control byte b is at offset a: the op, the
\* size and the offset of the operands, or st = "err" when the size byte of
\* an extended command is missing.  Op::from_u8 knows all eight values.
decompress_header(s, a, b) ==
    IF b \div 32 = 7
    THEN IF Avail(s, a + 1, 1)
         THEN [st |-> "ok", op |-> (b \div 4) % 8,
               size |-> (((b % 4) * 256) + Byte(s, a + 1)) + 1,
               operands |-> a + 2]
         ELSE [st |-> "err", op |-> (b \div 4) % 8, size |-> 0,
               operands |-> a + 1]
    ELSE [st |-> "ok", op |-> b \div 32, size |-> (b % 32) + 1,
          operands |-> a + 1]

\* The command whose header h was decoded, applied to out.
decompress_body(s, out, b, h) ==
    IF h.st = "err"
    THEN [st |-> "err", pos |-> h.operands, out |-> out,
          b |-> b, op |-> h.op, size |-> h.size, operands |-> h.operands]
    ELSE Let(apply_op(s, h.operands, out, h.op, h.size), LAMBDA r :
           [st |-> r.st, pos |-> r.pos, out |-> r.out,
            b |-> b, op |-> h.op, size |-> h.size, operands |-> h.operands])

\* decompress_cmd with a slip: 0xFF ends the stream only as its last byte.
decompress_cmd_last_only(s, a, out) ==
    IF ~Avail(s, a, 1)
    THEN [st |-> "err", pos |-> a, out |-> out,
          b |-> -1, op |-> -1, size |-> 0, operands |-> a]
    ELSE IF Byte(s, a) = 255 /\ a + 1 = s.len
    THEN [st |-> "done", pos |-> a + 1, out |-> out,
          b |-> 255, op |-> -1, size |-> 0, operands |-> a + 1]
    ELSE Let(decompress_header(s, a, Byte(s, a)), LAMBDA h :
           decompress_body(s, out, Byte(s, a), h))

\* decompress_cmd with a slip: the end of the input ends the stream like a
\* terminator.
decompress_cmd_eof_ends(s, a, out) ==
    IF ~Avail(s, a, 1) \/ Byte(s, a) = 255
    THEN [st |-> "done", pos |-> a + 1, out |-> out,
          b |-> 255, op |-> -1, size |-> 0, operands |-> a + 1]
    ELSE Let(decompress_header(s, a, Byte(s, a)), LAMBDA h :
           decompress_body(s, out, Byte(s, a), h))

\* One iteration of the loop of decompress with the cursor at offset a:
\* st is "done" at the terminator, and b, op, size, operands record the
\* decoded header.
decompress_cmd(s, a, out) ==
    IF ~Avail(s, a, 1)
    THEN [st |-> "err", pos |-> a, out |-> out,
          b |-> -1, op |-> -1, size |-> 0, operands |-> a]
    ELSE IF Byte(s, a) = 255
    THEN [st |-> "done", pos |-> a + 1, out |-> out,
          b |-> 255, op |-> -1, size |-> 0, operands |-> a + 1]
    ELSE Let(decompress_header(s, a, Byte(s, a)), LAMBDA h :
           decompress_body(s, out, Byte(s, a), h))

RECURSIVE decompress_loop(_, _, _)
decompress_loop(s, a, out) ==
    Let(decompress_cmd(s, a, out), LAMBDA c :
      CASE c.st = "done" -> [st |-> "ok", out |-> out]
        [] c.st = "ok" -> decompress_loop(s, c.pos, c.out)
        [] OTHER -> [st |-> c.st, out |-> <<>>,
                     why |-> IF c.st = "err"
                             THEN "short read"
                             ELSE "back-reference outside the output"])

\* decompress(&s[a..])
decompress(s, a) == decompress_loop(s, a, <<>>)

\* ------------------------------------------------------- lib.rs: parsers

Fail(st, why) == [st |-> st, why |-> why]

\* Area::from_u8: 0x00..0x07.
AreaKnown(v) == v <= 7

\* Event::from_u8: 0x00..0x15.
EventKnown(v) == v <= 21

\* TileSet::from_u8: 0x00..0x1c.
TileSetKnown(v) == v <= 28

\* StateConditionValue::from_u16: the selector's name, or "" when unknown.
StateConditionValue(v) ==
    CASE v = 58854 -> "Default"
      [] v = 58859 -> "DoorPointerIs"
      [] v = 58879 -> "MainAreaBossDead"
      [] v = 58898 -> "EventSet"
      [] v = 58921 -> "AreaBossesDead"
      [] v = 58944 -> "HasMorphBall"
      [] v = 58962 -> "HasMorphBallAndMissiles"
      [] v = 58985 -> "HasPowerBombs"
      [] v = 59000 -> "HasSpeedBooster"
      [] OTHER -> ""

\* load_room_mdb_header(&rom[off..]): eleven bytes, area checked.
load_room_mdb_header(rom, off) ==
    IF ~Avail(rom, off, 2)
    THEN Fail("err", "short read")
    ELSE IF ~AreaKnown(Byte(rom, off + 1))
    THEN Fail("err", "unknown area")
    ELSE IF ~Avail(rom, off, 11)
    THEN Fail("err", "short read")
    ELSE [st |-> "ok",
          mdb |-> [index |-> Byte(rom, off),
                   area |-> Byte(rom, off + 1),
                   x |-> Byte(rom, off + 2),
                   y |-> Byte(rom, off + 3),
                   width |-> Byte(rom, off + 4),
                   height |-> Byte(rom, off + 5),
                   up_scroller |-> Byte(rom, off + 6),
                   down_scroller |-> Byte(rom, off + 7),
                   graphics_flags |-> Byte(rom, off + 8),
                   door_list_ptr |-> read_u16(rom, off + 9),
                   states |-> <<>>,
                   door_list |-> <<>>]]

\* load_state_condition with the cursor at offset a: the condition and the
\* offset after its parameter bytes.
load_state_condition(rom, a) ==
    IF ~Avail(rom, a, 2)
    THEN Fail("err", "short read")
    ELSE LET tag == StateConditionValue(read_u16(rom, a))
         IN  CASE tag = "" -> Fail("err", "unknown state condition")
               [] tag = "DoorPointerIs" ->
                    IF Avail(rom, a + 2, 2)
                    THEN [st |-> "ok", pos |-> a + 4,
                          cond |-> [tag |-> tag, arg |-> read_u16(rom, a + 2)]]
                    ELSE Fail("err", "short read")
               [] tag = "EventSet" ->
                    IF ~Avail(rom, a + 2, 1)
                    THEN Fail("err", "short read")
                    ELSE IF ~EventKnown(Byte(rom, a + 2))
                    THEN Fail("err", "unknown event")
                    ELSE [st |-> "ok", pos |-> a + 3,
                          cond |-> [tag |-> tag, arg |-> Byte(rom, a + 2)]]
               [] tag = "AreaBossesDead" ->
                    IF Avail(rom, a + 2, 1)
                    THEN [st |-> "ok", pos |-> a + 3,
                          cond |-> [tag |-> tag, arg |-> Byte(rom, a + 2)]]
                    ELSE Fail("err", "short read")
               [] OTHER ->
                    [st |-> "ok", pos |-> a + 2, cond |-> [tag |-> tag, arg |-> 0]]

\* load_state_data(&rom[a..]): the 26-byte record, tile set checked.
load_state_data(rom, a) ==
    IF ~Avail(rom, a, 4)
    THEN Fail("err", "short read")
    ELSE IF ~TileSetKnown(Byte(rom, a + 3))
    THEN Fail("err", "unknown tile set")
    ELSE IF ~Avail(rom, a, 26)
    THEN Fail("err", "short read")
    ELSE [st |-> "ok",
          data |-> [level_data |-> read_u24(rom, a),
                    tile_set |-> Byte(rom, a + 3),
                    music_data_index |-> Byte(rom, a + 4),
                    music_track |-> Byte(rom, a + 5),
                    fx_ptr |-> read_u16(rom, a + 6),
                    enemy_population |-> read_u16(rom, a + 8),
                    enemy_set |-> read_u16(rom, a + 10),
                    layer_2_scroll_x |-> Byte(rom, a + 12),
                    layer_2_scroll_y |-> Byte(rom, a + 13),
                    scroll_ptr |-> read_u16(rom, a + 14),
                    x_ray_block_ptr |-> read_u16(rom, a + 16),
                    main_asm_ptr |-> read_u16(rom, a + 18),
                    plm_ptr |-> read_u16(rom, a + 20),
                    bg_ptr |-> read_u16(rom, a + 22),
                    setup_asm_ptr |-> read_u16(rom, a + 24)]]

\* The "?" operator: an Err (and likewise a panic) of r ends the caller
\* with it, and otherwise the caller goes on with r.
Try(r, Then(_)) ==
    Let(r, LAMBDA v : IF v.st # "ok" THEN Fail(v.st, v.why) ELSE Then(v))

\* The same for an address computation that can only panic.
TryAddr(ra, why, Then(_)) ==
    Let(ra, LAMBDA v : IF v.st # "ok" THEN Fail(v.st, why) ELSE Then(v.v))

\* The data pointer of a state whose condition c was parsed: for Default the
\* cursor position as a bank 0x8F pointer, else the u16 at the cursor.
state_data_ptr(rom, c) ==
    IF c.cond.tag = "Default"
    THEN [st |-> "ok", v |-> rom_addr_to_snes16(c.pos), pos |-> c.pos,
          done |-> TRUE]
    ELSE IF Avail(rom, c.pos, 2)
    THEN [st |-> "ok", v |-> read_u16(rom, c.pos), pos |-> c.pos + 2,
          done |-> FALSE]
    ELSE Fail("err", "short read")

\* The loop of load_states with a slip: a state is put before the states
\* parsed so far (insert(0, ..) for push).
RECURSIVE load_states_loop_newest_first(_, _, _, _, _)
load_states_loop_newest_first(rom, oc, state_offset, a, states) ==
    Try(load_state_condition(rom, a), LAMBDA c :
      Try(state_data_ptr(rom, c), LAMBDA p :
        TryAddr(rom_addr(oc, 143, p.v), "state data pointer below 0x8000",
                LAMBDA data_addr :
          Try(load_state_data(rom, data_addr), LAMBDA d :
            IF p.done
            THEN [st |-> "ok",
                  states |-> <<[condition |-> c.cond, data |-> d.data]>>
                               \o states]
            ELSE load_states_loop_newest_first(rom, oc, state_offset, p.pos,
                     <<[condition |-> c.cond, data |-> d.data]>> \o states)))))

\* The loop of load_states with the cursor at offset a of the ROM; the
\* cursor started at state_offset.
RECURSIVE load_states_loop(_, _, _, _, _)
load_states_loop(rom, oc, state_offset, a, states) ==
    Try(load_state_condition(rom, a), LAMBDA c :
      Try(state_data_ptr(rom, c), LAMBDA p :
        TryAddr(rom_addr(oc, 143, p.v), "state data pointer below 0x8000",
                LAMBDA data_addr :
          Try(load_state_data(rom, data_addr), LAMBDA d :
            IF p.done
            THEN [st |-> "ok",
                  states |-> Append(states,
                                    [condition |-> c.cond, data |-> d.data])]
            ELSE load_states_loop(rom, oc, state_offset, p.pos,
                     Append(states, [condition |-> c.cond, data |-> d.data]))))))

load_states(rom, oc, state_offset) ==
    load_states_loop(rom, oc, state_offset, state_offset, <<>>)

\* load_room_mdb(offset): the header, then the states 0xb bytes later.
load_room_mdb(rom, oc, offset) ==
    Try(load_room_mdb_header(rom, offset), LAMBDA h :
      Try(load_states(rom, oc, offset + 11), LAMBDA s :
        [st |-> "ok", mdb |-> [h.mdb EXCEPT !.states = s.states]]))

\* load_block_info with a slip: the two flip bits are taken for each other.
load_block_info_flips_swapped(data) ==
    [ty |-> (data \div 4096) % 16,
     x_flip |-> (data \div 2048) % 2 = 1,
     y_flip |-> (data \div 1024) % 2 = 1,
     tile_index |-> data % 1024]

\* load_block_info with a slip: the tile index keeps eleven bits.
load_block_info_wide_index(data) ==
    [ty |-> (data \div 4096) % 16,
     x_flip |-> (data \div 1024) % 2 = 1,
     y_flip |-> (data \div 2048) % 2 = 1,
     tile_index |-> data % 2048]

\* load_block_info on the u16 data: BlockType::from_u8 knows all 16 values.
load_block_info(data) ==
    [ty |-> (data \div 4096) % 16,
     x_flip |-> (data \div 1024) % 2 = 1,
     y_flip |-> (data \div 2048) % 2 = 1,
     tile_index |-> data % 1024]

DoorBlock == 9

\* The largest element of a set of naturals, 0 when it is empty (the fold
\* max_door_index = cmp::max(max_door_index, b) from 0).
MaxOf(S) == IF S = {} THEN 0 ELSE CHOOSE m \in S : \A n \in S : n <= m

\* load_room_data with a slip: the fold over the BTS bytes takes every cell,
\* whatever its type.
load_room_data_any_cell(oc, data) ==
    IF Len(data) < 2
    \* data.len() - 2 underflows: a panic with overflow checks; wrapped, the
    \* read of the first word then fails.
    THEN IF oc
         THEN Fail("panic", "room data shorter than 2 bytes")
         ELSE Fail("err", "short read")
    ELSE LET data_len == Len(data) - 2
             num_blocks == (data[1] + (256 * data[2])) \div 2
             word(k) == data[k + 1] + (256 * data[k + 2])
         IN  IF data_len # num_blocks * 3 /\ data_len # num_blocks * 5
             THEN Fail("err", "wrong sized room data")
             ELSE LET has_layer2 == data_len = num_blocks * 5
                      layer_1 == [i \in 1..num_blocks |->
                                    load_block_info(word(2 + (2 * (i - 1))))]
                      bts == [i \in 1..num_blocks |->
                                data[2 + (2 * num_blocks) + i]]
                      layer_2 == [i \in 1..num_blocks |->
                                    load_block_info(word(2 + (3 * num_blocks)
                                                         + (2 * (i - 1))))]
                      max_door_index ==
                          MaxOf({bts[i] : i \in 1..num_blocks})
                  IN  [st |-> "ok",
                       room |-> [layer_1 |-> layer_1,
                                 bts |-> bts,
                                 layer_2 |-> IF has_layer2
                                             THEN <<layer_2>> ELSE <<>>,
                                 num_doors |-> max_door_index + 1]]

\* load_room_data with a slip: the two size tests are joined by "or".
load_room_data_either_size(oc, data) ==
    IF Len(data) < 2
    \* data.len() - 2 underflows: a panic with overflow checks; wrapped, the
    \* read of the first word then fails.
    THEN IF oc
         THEN Fail("panic", "room data shorter than 2 bytes")
         ELSE Fail("err", "short read")
    ELSE LET data_len == Len(data) - 2
             num_blocks == (data[1] + (256 * data[2])) \div 2
             word(k) == data[k + 1] + (256 * data[k + 2])
         IN  IF data_len # num_blocks * 3 \/ data_len # num_blocks * 5
             THEN Fail("err", "wrong sized room data")
             ELSE LET has_layer2 == data_len = num_blocks * 5
                      layer_1 == [i \in 1..num_blocks |->
                                    load_block_info(word(2 + (2 * (i - 1))))]
                      bts == [i \in 1..num_blocks |->
                                data[2 + (2 * num_blocks) + i]]
                      layer_2 == [i \in 1..num_blocks |->
                                    load_block_info(word(2 + (3 * num_blocks)
                                                         + (2 * (i - 1))))]
                      max_door_index ==
                          MaxOf({bts[i] : i \in {j \in 1..num_blocks :
                                                    layer_1[j].ty = DoorBlock}})
                  IN  [st |-> "ok",
                       room |-> [layer_1 |-> layer_1,
                                 bts |-> bts,
                                 layer_2 |-> IF has_layer2
                                             THEN <<layer_2>> ELSE <<>>,
                                 num_doors |-> max_door_index + 1]]

\* load_room_data on the decompressed bytes data (a sequence).
load_room_data(oc, data) ==
    IF Len(data) < 2
    \* data.len() - 2 underflows: a panic with overflow checks; wrapped, the
    \* read of the first word then fails.
    THEN IF oc
         THEN Fail("panic", "room data shorter than 2 bytes")
         ELSE Fail("err", "short read")
    ELSE LET data_len == Len(data) - 2
             num_blocks == (data[1] + (256 * data[2])) \div 2
             word(k) == data[k + 1] + (256 * data[k + 2])
         IN  IF data_len # num_blocks * 3 /\ data_len # num_blocks * 5
             THEN Fail("err", "wrong sized room data")
             ELSE LET has_layer2 == data_len = num_blocks * 5
                      layer_1 == [i \in 1..num_blocks |->
                                    load_block_info(word(2 + (2 * (i - 1))))]
                      bts == [i \in 1..num_blocks |->
                                data[2 + (2 * num_blocks) + i]]
                      layer_2 == [i \in 1..num_blocks |->
                                    load_block_info(word(2 + (3 * num_blocks)
                                                         + (2 * (i - 1))))]
                      max_door_index ==
                          MaxOf({bts[i] : i \in {j \in 1..num_blocks :
                                                    layer_1[j].ty = DoorBlock}})
                  IN  [st |-> "ok",
                       room |-> [layer_1 |-> layer_1,
                                 bts |-> bts,
                                 layer_2 |-> IF has_layer2
                                             THEN <<layer_2>> ELSE <<>>,
                                 num_doors |-> max_door_index + 1]]

\* load_door_data(&rom[a..]): twelve bytes.
load_door_data(rom, a) ==
    IF ~Avail(rom, a, 12)
    THEN Fail("err", "short read")
    ELSE [st |-> "ok",
          door |-> [dest_room_ptr |-> read_u16(rom, a),
                    elevator_props |-> Byte(rom, a + 2),
                    orientation |-> Byte(rom, a + 3),
                    x |-> Byte(rom, a + 4) + (256 * Byte(rom, a + 6)),
                    y |-> Byte(rom, a + 5) + (256 * Byte(rom, a + 7)),
                    spawn_dist |-> read_u16(rom, a + 8),
                    asm_ptr |-> read_u16(rom, a + 10)]]

\* -------------------------------------------------------- lib.rs: Loader

\* A loader L is [rooms_to_check, sm, decodes]: the fields of struct Loader
\* (rom_data is the variable of that name) and decodes, which counts for each
\* cache and pointer how many times the data behind the pointer was decoded.
\* A map is a function on its key set.

EmptyMap == [k \in {} |-> 0]

MaxCount == 3

\* HashMap::insert: the new value replaces an old one.
MapInsert(m, k, v) == (k :> v) @@ m

\* Entry::or_insert: an old value stays.
MapOrInsert(m, k, v) == m @@ (k :> v)

\* The counts saturate at MaxCount.
Bump(count, k) ==
    IF k \in DOMAIN count
    THEN [count EXCEPT ![k] = IF @ < MaxCount THEN @ + 1 ELSE @]
    ELSE count @@ (k :> 1)

\* Loader::new
LoaderNew ==
    [rooms_to_check |-> {((ROOM_MDB_START % 32768) + 32768) % 65536},
     sm |-> [room_mdb |-> EmptyMap,
             level_data |-> EmptyMap,
             plm_population |-> EmptyMap,
             tile_sets |-> <<>>,
             tiles |-> EmptyMap,
             tile_tables |-> EmptyMap],
     decodes |-> [level_data |-> EmptyMap,
                  plm_population |-> EmptyMap,
                  tiles |-> EmptyMap,
                  tile_tables |-> EmptyMap]]

\* get_or_load_level_data: the argument of or_insert is a block, evaluated
\* before or_insert is called, whether or not the entry exists.
get_or_load_level_data(rom, oc, L, level_data_ptr) ==
    TryAddr(snes_to_rom_addr(level_data_ptr, rom.len),
            "level data pointer outside the ROM", LAMBDA a :
      Try(decompress(rom, a), LAMBDA d :
        Try(load_room_data(oc, d.out), LAMBDA r :
          [st |-> "ok",
           L |-> [L EXCEPT
                    !.sm.level_data = MapOrInsert(@, level_data_ptr, r.room),
                    !.decodes.level_data = Bump(@, level_data_ptr)]])))

\* The loop of get_or_load_plm_list with the cursor at offset a.
RECURSIVE plm_loop(_, _, _)
plm_loop(rom, a, plms) ==
    IF ~Avail(rom, a, 2)
    THEN Fail("err", "short read")
    ELSE IF read_u16(rom, a) = 0
    THEN [st |-> "ok", plms |-> plms]
    ELSE IF ~Avail(rom, a, 6)
    THEN Fail("err", "short read")
    ELSE plm_loop(rom, a + 6,
                  Append(plms, [id |-> read_u16(rom, a),
                                x |-> Byte(rom, a + 2),
                                y |-> Byte(rom, a + 3),
                                param |-> read_u16(rom, a + 4)]))

\* get_or_load_plm_list with a slip: an empty list is not put in the cache.
get_or_load_plm_list_skip_empty(rom, oc, L, plm_ptr) ==
    TryAddr(rom_addr(oc, 143, plm_ptr), "plm pointer below 0x8000", LAMBDA a :
      Try(plm_loop(rom, a, <<>>), LAMBDA r :
        [st |-> "ok",
         L |-> IF r.plms = <<>>
               THEN L
               ELSE [L EXCEPT
                       !.sm.plm_population = MapOrInsert(@, plm_ptr, r.plms),
                       !.decodes.plm_population = Bump(@, plm_ptr)]]))

\* get_or_load_plm_list: as for the level data, the list is decoded before
\* or_insert looks at the entry.
get_or_load_plm_list(rom, oc, L, plm_ptr) ==
    TryAddr(rom_addr(oc, 143, plm_ptr), "plm pointer below 0x8000", LAMBDA a :
      Try(plm_loop(rom, a, <<>>), LAMBDA r :
        [st |-> "ok",
         L |-> [L EXCEPT
                  !.sm.plm_population = MapOrInsert(@, plm_ptr, r.plms),
                  !.decodes.plm_population = Bump(@, plm_ptr)]]))

\* The loop of load_level_data with a slip: num_doors of the last state
\* instead of the largest.
RECURSIVE load_level_data_loop_last(_, _, _, _, _, _)
load_level_data_loop_last(rom, oc, L, states, i, num_doors) ==
    IF i > Len(states)
    THEN [st |-> "ok", L |-> L, num_doors |-> num_doors]
    ELSE Try(get_or_load_level_data(rom, oc, L, states[i].data.level_data),
             LAMBDA ld :
           Try(get_or_load_plm_list(rom, oc, ld.L, states[i].data.plm_ptr),
               LAMBDA pl :
             load_level_data_loop_last(rom, oc, pl.L, states, i + 1,
                 ld.L.sm.level_data[states[i].data.level_data].num_doors)))

\* The loop of load_level_data from state i of states on.
RECURSIVE load_level_data_loop(_, _, _, _, _, _)
load_level_data_loop(rom, oc, L, states, i, num_doors) ==
    IF i > Len(states)
    THEN [st |-> "ok", L |-> L, num_doors |-> num_doors]
    ELSE Try(get_or_load_level_data(rom, oc, L, states[i].data.level_data),
             LAMBDA ld :
           Try(get_or_load_plm_list(rom, oc, ld.L, states[i].data.plm_ptr),
               LAMBDA pl :
             load_level_data_loop(rom, oc, pl.L, states, i + 1,
                 IF ld.L.sm.level_data[states[i].data.level_data].num_doors
                      > num_doors
                 THEN ld.L.sm.level_data[states[i].data.level_data].num_doors
                 ELSE num_doors)))

load_level_data(rom, oc, L, mdb) ==
    load_level_data_loop(rom, oc, L, mdb.states, 1, 0)

\* door_list_push with a slip: no destination is put in the frontier.
door_list_push_no_frontier(L, door_list, door) ==
    IF door.dest_room_ptr = 0
    THEN [L |-> L, door_list |-> door_list]
    ELSE [L |-> L, door_list |-> Append(door_list, door)]

\* door_list_push with a slip: the door is pushed inside the contains_key
\* test, so a door to a room already loaded is dropped.
door_list_push_new_only(L, door_list, door) ==
    IF door.dest_room_ptr = 0 \/ door.dest_room_ptr \in DOMAIN L.sm.room_mdb
    THEN [L |-> L, door_list |-> door_list]
    ELSE [L |-> [L EXCEPT !.rooms_to_check = @ \cup {door.dest_room_ptr}],
          door_list |-> Append(door_list, door)]

\* door_list_push with a slip: the contains_key test is missing.
door_list_push_unchecked(L, door_list, door) ==
    IF door.dest_room_ptr = 0
    THEN [L |-> L, door_list |-> door_list]
    ELSE [L |-> [L EXCEPT !.rooms_to_check = @ \cup {door.dest_room_ptr}],
          door_list |-> Append(door_list, door)]

\* door_list_push with a slip: a door whose destination is 0 is pushed
\* too.
door_list_push_keep_empty(L, door_list, door) ==
    [L |-> IF door.dest_room_ptr = 0 \/ door.dest_room_ptr \in DOMAIN L.sm.room_mdb
           THEN L
           ELSE [L EXCEPT !.rooms_to_check = @ \cup {door.dest_room_ptr}],
     door_list |-> Append(door_list, door)]

\* The body of the loop of load_door_list after door_data was parsed.
door_list_push(L, door_list, door) ==
    IF door.dest_room_ptr = 0
    THEN [L |-> L, door_list |-> door_list]
    ELSE [L |-> IF door.dest_room_ptr \in DOMAIN L.sm.room_mdb
                THEN L
                ELSE [L EXCEPT !.rooms_to_check = @ \cup {door.dest_room_ptr}],
          door_list |-> Append(door_list, door)]

\* The loop of load_door_list with a slip: a slot with destination 0 ends
\* the loop (break for continue).
RECURSIVE load_door_list_loop_stop_at_empty(_, _, _, _, _, _, _)
load_door_list_loop_stop_at_empty(rom, oc, L, door_list, a, i, num_doors) ==
    IF i >= num_doors
    THEN [st |-> "ok", L |-> L, door_list |-> door_list]
    ELSE IF ~Avail(rom, a, 2)
    THEN Fail("err", "short read")
    ELSE TryAddr(rom_addr(oc, 131, read_u16(rom, a)),
                 "door data pointer below 0x8000", LAMBDA da :
           Try(load_door_data(rom, da), LAMBDA d :
             IF d.door.dest_room_ptr = 0
             THEN [st |-> "ok", L |-> L, door_list |-> door_list]
             ELSE Let(door_list_push(L, door_list, d.door), LAMBDA n :
                    load_door_list_loop_stop_at_empty(rom, oc, n.L, n.door_list,
                                                      a + 2, i + 1, num_doors))))

\* The loop of load_door_list: slot i of num_doors, the cursor at offset a.
RECURSIVE load_door_list_loop(_, _, _, _, _, _, _)
load_door_list_loop(rom, oc, L, door_list, a, i, num_doors) ==
    IF i >= num_doors
    THEN [st |-> "ok", L |-> L, door_list |-> door_list]
    ELSE IF ~Avail(rom, a, 2)
    THEN Fail("err", "short read")
    ELSE TryAddr(rom_addr(oc, 131, read_u16(rom, a)),
                 "door data pointer below 0x8000", LAMBDA da :
           Try(load_door_data(rom, da), LAMBDA d :
             Let(door_list_push(L, door_list, d.door), LAMBDA n :
               load_door_list_loop(rom, oc, n.L, n.door_list,
                                   a + 2, i + 1, num_doors))))

load_door_list(rom, oc, L, mdb, num_doors) ==
    TryAddr(rom_addr(oc, 143, mdb.door_list_ptr),
            "door list pointer below 0x8000", LAMBDA a :
      load_door_list_loop(rom, oc, L, mdb.door_list, a, 0, num_doors))

\* load_room with a slip: room_ptr leaves rooms_to_check when it is picked,
\* before its door list is read.
load_room_remove_first(rom, oc, L, room_ptr) ==
    TryAddr(rom_addr(oc, 143, room_ptr), "room pointer below 0x8000",
            LAMBDA rom_ptr :
      Try(load_room_mdb(rom, oc, rom_ptr), LAMBDA m :
        Try(load_level_data(rom, oc,
                            [L EXCEPT !.rooms_to_check = @ \ {room_ptr}], m.mdb),
            LAMBDA ld :
          Try(load_door_list(rom, oc, ld.L, m.mdb, ld.num_doors), LAMBDA dl :
            [st |-> "ok",
             L |-> [dl.L EXCEPT
                      !.sm.room_mdb =
                          MapInsert(@, room_ptr,
                              [m.mdb EXCEPT !.door_list = dl.door_list])]]))))

\* One iteration of the while loop of load, room_ptr being the element that
\* rooms_to_check.iter().next() gave.
load_room(rom, oc, L, room_ptr) ==
    TryAddr(rom_addr(oc, 143, room_ptr), "room pointer below 0x8000",
            LAMBDA rom_ptr :
      Try(load_room_mdb(rom, oc, rom_ptr), LAMBDA m :
        Try(load_level_data(rom, oc, L, m.mdb), LAMBDA ld :
          Try(load_door_list(rom, oc, ld.L, m.mdb, ld.num_doors), LAMBDA dl :
            [st |-> "ok",
             L |-> [dl.L EXCEPT
                      !.rooms_to_check = @ \ {room_ptr},
                      !.sm.room_mdb =
                          MapInsert(@, room_ptr,
                              [m.mdb EXCEPT !.door_list = dl.door_list])]]))))

\* The entry of the tile set table that pointer i of the pointer table
\* leads to, pushed on tile_sets.
load_tileset_entry(rom, oc, L, i) ==
    IF ~Avail(rom, TILESET_POINTER_TABLE + (2 * i), 2)
    THEN Fail("err", "short read")
    ELSE TryAddr(rom_addr(oc, TILESET_ENTRY_BANK,
                          read_u16(rom, TILESET_POINTER_TABLE + (2 * i))),
                 "tile set entry pointer below 0x8000", LAMBDA entry_addr :
           IF ~Avail(rom, entry_addr, 9)
           THEN Fail("err", "short read")
           ELSE [st |-> "ok",
                 L |-> [L EXCEPT !.sm.tile_sets =
                          Append(@, [tile_table_ptr |-> read_u24(rom, entry_addr),
                                     tiles_ptr |-> read_u24(rom, entry_addr + 3),
                                     palette_ptr |-> read_u24(rom, entry_addr + 6)])]])

\* The loop of load_tileset_table over the pointers lo..hi-1 in order: the
\* range is run as its lower half followed by its upper half.
RECURSIVE load_tileset_table_loop(_, _, _, _, _)
load_tileset_table_loop(rom, oc, L, lo, hi) ==
    IF lo >= hi
    THEN [st |-> "ok", L |-> L]
    ELSE IF hi = lo + 1
    THEN load_tileset_entry(rom, oc, L, lo)
    ELSE Try(load_tileset_table_loop(rom, oc, L, lo, (lo + hi) \div 2),
             LAMBDA first :
           load_tileset_table_loop(rom, oc, first.L, (lo + hi) \div 2, hi))

load_tileset_table(rom, oc, L) ==
    load_tileset_table_loop(rom, oc, L, 0, TILESET_POINTER_TABLE_COUNT)

\* get_pixel(data, x, y) on the tile that starts at index base of the
\* sequence data (base is 0-based).
get_pixel(data, base, x, y) ==
    LET plane(bit) ==
            (data[base + (y * 2) + (bit % 2) + ((bit \div 2) * 16) + 1]
                \div (2 ^ (7 - x))) % 2
    IN  plane(0) + (2 * plane(1)) + (4 * plane(2)) + (8 * plane(3))

\* de_planar_tiles with a slip: the even x goes to the high nibble.
de_planar_tiles_nibbles_swapped(data) ==
    [k \in 1..Len(data) |->
       IF (k - 1) \div 32 < Len(data) \div 32
       THEN (16 * get_pixel(data, ((k - 1) \div 32) * 32,
                            (((k - 1) % 32) % 4) * 2, ((k - 1) % 32) \div 4))
              + get_pixel(data, ((k - 1) \div 32) * 32,
                          ((((k - 1) % 32) % 4) * 2) + 1,
                          ((k - 1) % 32) \div 4)
       ELSE data[k]]

\* de_planar_tiles: every whole 32-byte tile is rewritten from its own bytes,
\* two pixels a byte, the odd x in the high nibble.
de_planar_tiles(data) ==
    [k \in 1..Len(data) |->
       IF (k - 1) \div 32 < Len(data) \div 32
       THEN get_pixel(data, ((k - 1) \div 32) * 32,
                      (((k - 1) % 32) % 4) * 2, ((k - 1) % 32) \div 4)
              + (16 * get_pixel(data, ((k - 1) \div 32) * 32,
                                ((((k - 1) % 32) % 4) * 2) + 1,
                                ((k - 1) % 32) \div 4))
       ELSE data[k]]

load_tiles(rom, oc, L, addr) ==
    IF addr \in DOMAIN L.sm.tiles
    THEN [st |-> "ok", L |-> L]
    ELSE TryAddr(snes_to_rom_addr(addr, rom.len),
                 "tiles pointer outside the ROM", LAMBDA a :
           Try(decompress(rom, a), LAMBDA d :
             [st |-> "ok",
              L |-> [L EXCEPT
                       !.sm.tiles = MapInsert(@, addr,
                                              [data |-> de_planar_tiles(d.out)]),
                       !.decodes.tiles = Bump(@, addr)]]))

load_tile_table(rom, oc, L, addr) ==
    IF addr \in DOMAIN L.sm.tile_tables
    THEN [st |-> "ok", L |-> L]
    ELSE TryAddr(snes_to_rom_addr(addr, rom.len),
                 "tile table pointer outside the ROM", LAMBDA a :
           Try(decompress(rom, a), LAMBDA d :
             [st |-> "ok",
              L |-> [L EXCEPT
                       !.sm.tile_tables = MapInsert(@, addr, [data |-> d.out]),
                       !.decodes.tile_tables = Bump(@, addr)]]))

\* The loop "for entry in tile_sets" of load over the entries lo..hi-1 of
\* tile_sets in order: the range is run as its lower half followed by its
\* upper half.
RECURSIVE load_tile_sets_loop(_, _, _, _, _)
load_tile_sets_loop(rom, oc, L, lo, hi) ==
    IF lo >= hi
    THEN [st |-> "ok", L |-> L]
    ELSE IF hi = lo + 1
    THEN Try(load_tiles(rom, oc, L, L.sm.tile_sets[lo].tiles_ptr), LAMBDA t :
           load_tile_table(rom, oc, t.L, L.sm.tile_sets[lo].tile_table_ptr))
    ELSE Try(load_tile_sets_loop(rom, oc, L, lo, (lo + hi) \div 2),
             LAMBDA first :
           load_tile_sets_loop(rom, oc, first.L, (lo + hi) \div 2, hi))

load_tile_sets(rom, oc, L) ==
    load_tile_sets_loop(rom, oc, L, 1, Len(L.sm.tile_sets) + 1)

\* load_cre with a slip: the CRE tile table is not loaded.
load_cre_tiles_only(rom, oc, L) ==
    load_tiles(rom, oc, L, rom_addr_to_snes(CRE_TILES))

\* The two calls that end load: the CRE tiles and the CRE tile table.
load_cre(rom, oc, L) ==
    Try(load_tiles(rom, oc, L, rom_addr_to_snes(CRE_TILES)), LAMBDA t :
      load_tile_table(rom, oc, t.L, rom_addr_to_snes(CRE_TILE_TABLE)))

\* ------------------------------------------------------------ ROM images

\* The inputs of SuperMetroidData::new are ROM images laid out as the parsers
\* above read them: NumRooms room headers in bank 0x8F from the seed pointer
\* 0x91F8 on, each with its condition list, state data and a door list of
\* MaxDoors slots; door records in bank 0x83; compressed level data in bank
\* 0xC2; PLM lists, the tile set pointer table and its entries in bank 0x8F;
\* compressed tiles and tile tables in banks 0xC3, 0xC4 and 0xB9.

ROM_SIZE == 3145728

NumRooms == 3

MaxDoors == 2

Seg(base, q) == [a \in base..(base + Len(q) - 1) |-> q[a - base + 1]]

RECURSIVE Overlay(_)
Overlay(segs) == IF segs = <<>> THEN EmptyMap ELSE Head(segs) @@ Overlay(Tail(segs))

RECURSIVE Flatten(_)
Flatten(qs) == IF qs = <<>> THEN <<>> ELSE Head(qs) \o Flatten(Tail(qs))

LE16(v) == <<v % 256, (v \div 256) % 256>>

LE24(v) == <<v % 256, (v \div 256) % 256, (v \div 65536) % 256>>

Zeros(n) == [i \in 1..n |-> 0]

\* A stream that decompresses to the bytes q (one DirectCopy of up to 32).
Stored(q) == <<Len(q) - 1>> \o q \o <<255>>

RoomPtr(i) == 37368 + (256 * i)

RoomPtrs == {RoomPtr(i) : i \in 0..(NumRooms - 1)}

StatePtr(i) == RoomPtr(i) + 64

DoorListPtr(i) == RoomPtr(i) + 128

DoorPtr(i, j) == 32768 + (16 * ((MaxDoors * i) + j))

PlmPtr(k) == 49152 + (16 * k)

LevelPtr(k) == 12746752 + (64 * k)

\* Level data with k door slots: k DoorBlock cells whose BTS bytes are
\* 0..k-1, or for k = 0 a single Air cell.
LevelBytes(k) ==
    IF k = 0
    THEN <<2, 0, 0, 0, 0>>
    ELSE LE16(2 * k) \o Flatten([i \in 1..k |-> <<0, 144>>])
                     \o [i \in 1..k |-> i - 1]

\* Pointers to level data that fails to load.
LevelWrongSized == LevelPtr(32)

LevelBackRef == LevelPtr(33)

LevelEmpty == LevelPtr(34)

\* The last two bytes of the ROM.
LevelUnterminated == rom_addr_to_snes(ROM_SIZE - 2)

\* Offset 0x8000 of bank 0x7E, which is no ROM bank.
LevelOutside == (126 * 65536) + 32768

LevelSegs ==
    [k \in 1..(MaxDoors + 1) |->
        Seg(snes_to_rom_addr(LevelPtr(k - 1), ROM_SIZE).v,
            Stored(LevelBytes(k - 1)))]
    \o << Seg(snes_to_rom_addr(LevelWrongSized, ROM_SIZE).v, <<1, 4, 0, 255>>),
          Seg(snes_to_rom_addr(LevelBackRef, ROM_SIZE).v, <<128, 0, 0, 255>>),
          Seg(snes_to_rom_addr(LevelEmpty, ROM_SIZE).v, <<255>>),
          Seg(snes_to_rom_addr(LevelUnterminated, ROM_SIZE).v, <<0, 1>>) >>

\* PLM list 0 is empty; list 1 holds one PLM.
PlmSegs ==
    << Seg(rom_addr_value(143, PlmPtr(1)), LE16(61143) \o <<1, 2>> \o LE16(3)) >>

StateDataBytes(level_data, tile_set, plm_ptr) ==
    LE24(level_data) \o <<tile_set, 0, 0>> \o Zeros(14) \o LE16(plm_ptr) \o Zeros(4)

\* A room configuration rc is [area, conds, event, tile_set, lds, plms,
\* doors]: conds is "default" (one Default state), "event" (an EventSet
\* state, whose data is at StatePtr, then the Default state) or "bad" (an
\* unknown selector); lds and plms give each state's level data and PLM
\* pointers in wire order; doors gives the destination of each door slot.
RoomSegs(i, rc) ==
    << Seg(rom_addr_value(143, RoomPtr(i)),
           <<i, rc.area, 0, 0, 1, 1, 0, 0, 0>> \o LE16(DoorListPtr(i))
             \o (CASE rc.conds = "default" ->
                        <<230, 229>>
                          \o StateDataBytes(rc.lds[1], rc.tile_set, rc.plms[1])
                   [] rc.conds = "event" ->
                        <<18, 230, rc.event>> \o LE16(StatePtr(i)) \o <<230, 229>>
                          \o StateDataBytes(rc.lds[2], rc.tile_set, rc.plms[2])
                   [] OTHER -> <<>>)),
       Seg(rom_addr_value(143, StatePtr(i)),
           IF rc.conds = "event"
           THEN StateDataBytes(rc.lds[1], rc.tile_set, rc.plms[1])
           ELSE <<>>),
       Seg(rom_addr_value(143, DoorListPtr(i)),
           Flatten([j \in 1..MaxDoors |-> LE16(DoorPtr(i, j - 1))])) >>
    \o [j \in 1..MaxDoors |->
          Seg(rom_addr_value(131, DoorPtr(i, j - 1)),
              LE16(rc.doors[j]) \o <<0, 0, 1, 2, 0, 0>> \o LE16(0) \o LE16(0))]

TilesPtr(e) == 12812288 + (64 * e)

TileTablePtr(e) == 12877824 + (64 * e)

PalettePtr(e) == 12943360 + (64 * e)

TileSetEntryPtr(e) == 59392 + (16 * e)

\* One planar tile: a WordFill of 32 bytes.
TileStream(a, b) == <<95, a, b, 255>>

\* A tile set configuration tc is [ptrs, entries, tiles, tables, cre_tiles,
\* cre_table]: the 29 short pointers of the table, the entries they may
\* point at, and the compressed streams behind the tiles and tile table
\* pointers and at the two CRE addresses.
TileSegs(tc) ==
    << Seg(TILESET_POINTER_TABLE,
           Flatten([i \in 1..TILESET_POINTER_TABLE_COUNT |-> LE16(tc.ptrs[i])])),
       Seg(CRE_TILES, tc.cre_tiles),
       Seg(CRE_TILE_TABLE, tc.cre_table) >>
    \o [e \in 1..Len(tc.entries) |->
          Seg(rom_addr_value(143, TileSetEntryPtr(e - 1)),
              LE24(tc.entries[e].tile_table_ptr) \o LE24(tc.entries[e].tiles_ptr)
                \o LE24(tc.entries[e].palette_ptr))]
    \o [e \in 1..Len(tc.tiles) |->
          Seg(snes_to_rom_addr(TilesPtr(e - 1), ROM_SIZE).v, tc.tiles[e])]
    \o [e \in 1..Len(tc.tables) |->
          Seg(snes_to_rom_addr(TileTablePtr(e - 1), ROM_SIZE).v, tc.tables[e])]

\* The image of length len with the rooms rooms[1..NumRooms] and the tile
\* sets tc.
Image(len, rooms, tc) ==
    [len |-> len,
     bytes |-> Overlay(Flatten([i \in 1..NumRooms |-> RoomSegs(i - 1, rooms[i])])
                       \o LevelSegs \o PlmSegs \o TileSegs(tc))]

\* The tile sets of a ROM that loads: every pointer of the table leads to
\* entry 0.
OkTiles ==
    [ptrs |-> [i \in 1..TILESET_POINTER_TABLE_COUNT |-> TileSetEntryPtr(0)],
     entries |-> << [tile_table_ptr |-> TileTablePtr(0),
                     tiles_ptr |-> TilesPtr(0),
                     palette_ptr |-> PalettePtr(0)] >>,
     tiles |-> << TileStream(15, 240) >>,
     tables |-> << Stored(<<1, 0, 2, 4>>) >>,
     cre_tiles |-> TileStream(170, 85),
     cre_table |-> Stored(<<3, 0, 4, 8>>)]

\* Two entries that share a tile table; the tiles of the second are one
\* tile and a trailing byte.
TwoEntryTiles ==
    [OkTiles EXCEPT
       !.ptrs = [i \in 1..TILESET_POINTER_TABLE_COUNT |-> TileSetEntryPtr(i % 2)],
       !.entries = @ \o << [tile_table_ptr |-> TileTablePtr(0),
                            tiles_ptr |-> TilesPtr(1),
                            palette_ptr |-> PalettePtr(1)] >>,
       !.tiles = @ \o << <<95, 129, 66, 0, 7, 255>> >>]

TileConfigs ==
    { OkTiles,
      TwoEntryTiles,
      \* an entry pointer below 0x8000
      [OkTiles EXCEPT !.ptrs[3] = TileSetEntryPtr(0) - 32768],
      \* tiles that end the ROM before their terminator
      [OkTiles EXCEPT !.entries[1].tiles_ptr = LevelUnterminated],
      \* tiles in a bank below 0x80
      [OkTiles EXCEPT !.entries[1].tiles_ptr = LevelOutside],
      \* a tile table with a back-reference into the empty output
      [OkTiles EXCEPT !.tables[1] = <<128, 0, 0, 255>>],
      \* the same in the CRE tile table
      [OkTiles EXCEPT !.cre_table = <<128, 0, 0, 255>>],
      \* CRE tiles with a subtract-copy from before the output
      [OkTiles EXCEPT !.cre_tiles = <<0, 9, 192, 2, 255>>] }

\* A room with one Default state whose level data has n door slots.
PlainRoom(n, doors) ==
    [area |-> 0, conds |-> "default", event |-> 0, tile_set |-> 0,
     lds |-> <<LevelPtr(n)>>, plms |-> <<PlmPtr(0)>>, doors |-> doors]

\* A room with an EventSet state and a Default state: the first has one door
\* slot, the second n, and both share one PLM list.
TwoStateRoom(n, doors) ==
    [area |-> 0, conds |-> "event", event |-> 0, tile_set |-> 0,
     lds |-> <<LevelPtr(1), LevelPtr(n)>>, plms |-> <<PlmPtr(1), PlmPtr(1)>>,
     doors |-> doors]

NoDoors == [j \in 1..MaxDoors |-> 0]

\* Door graphs: room i reads 1 or MaxDoors door slots; its first slot leads
\* nowhere (0), to the room the load starts from or to room i + 2, and slot
\* j > 1 to room i + j - 1 (all mod NumRooms).  Rooms with an odd index have
\* two states.
GraphRoom(i, n, d) ==
    LET doors == [j \in 1..MaxDoors |->
                    IF j = 1 THEN d ELSE RoomPtr((i + j - 1) % NumRooms)]
    IN  IF i % 2 = 1 THEN TwoStateRoom(n, doors) ELSE PlainRoom(n, doors)

FirstDoors(i) == {0, RoomPtr(0), RoomPtr((i + 2) % NumRooms)}

GraphConfigs ==
    { c \in [1..NumRooms -> ({1, MaxDoors} \X ({0} \cup RoomPtrs))] :
        \A i \in 1..NumRooms : c[i][2] \in FirstDoors(i - 1) }

GraphImages ==
    { Image(ROM_SIZE, [i \in 1..NumRooms |-> GraphRoom(i - 1, c[i][1], c[i][2])],
            OkTiles) : c \in GraphConfigs }

ErrKinds ==
    {"ok", "bad_area", "bad_selector", "bad_event", "bad_tile_set", "wrong_size",
     "back_ref", "empty", "unterminated", "outside", "low_plm", "low_door"}

\* A room without doors that fails to load in the way kind says.
ErrRoom(kind) ==
    LET ok == PlainRoom(0, NoDoors)
    IN  CASE kind = "bad_area" -> [ok EXCEPT !.area = 8]
          [] kind = "bad_selector" -> [ok EXCEPT !.conds = "bad"]
          [] kind = "bad_event" -> [TwoStateRoom(0, NoDoors) EXCEPT !.event = 22]
          [] kind = "bad_tile_set" -> [ok EXCEPT !.tile_set = 29]
          [] kind = "wrong_size" -> [ok EXCEPT !.lds = <<LevelWrongSized>>]
          [] kind = "back_ref" -> [ok EXCEPT !.lds = <<LevelBackRef>>]
          [] kind = "empty" -> [ok EXCEPT !.lds = <<LevelEmpty>>]
          [] kind = "unterminated" -> [ok EXCEPT !.lds = <<LevelUnterminated>>]
          [] kind = "outside" -> [ok EXCEPT !.lds = <<LevelOutside>>]
          [] kind = "low_plm" -> [ok EXCEPT !.plms = <<PlmPtr(0) - 32768>>]
          [] kind = "low_door" -> [ok EXCEPT !.doors[1] = RoomPtr(0) - 32768]
          [] OTHER -> ok

\* The seed room leads to rooms 1..MaxDoors; rooms 1 and 2 are of kinds a
\* and b.  Or the seed room itself is of kind a.
FanRoom ==
    PlainRoom(MaxDoors,
              [j \in 1..MaxDoors |-> IF j < NumRooms THEN RoomPtr(j) ELSE 0])

ErrImages ==
    { Image(ROM_SIZE,
            [i \in 1..NumRooms |->
               CASE i = 1 -> FanRoom
                 [] i = 2 -> ErrRoom(k[1])
                 [] i = 3 -> ErrRoom(k[2])
                 [] OTHER -> ErrRoom("ok")],
            OkTiles) : k \in ErrKinds \X ErrKinds }
    \cup
    { Image(ROM_SIZE,
            [i \in 1..NumRooms |-> IF i = 1 THEN ErrRoom(k) ELSE ErrRoom("ok")],
            OkTiles) : k \in ErrKinds }

TileImages ==
    { Image(ROM_SIZE, [i \in 1..NumRooms |-> ErrRoom("ok")], tc) :
        tc \in TileConfigs }

\* Images of a wrong length: the bytes of a ROM that loads, cut or extended.
SizeImages ==
    { Image(len, [i \in 1..NumRooms |-> ErrRoom("ok")], OkTiles) :
        len \in {0, ROM_SIZE - 1, ROM_SIZE + 1} }

\* Level data of two cells, for rooms whose door list has more slots than
\* MaxDoors: DoorBlock cells with BTS 0 and 3; an Air cell with BTS 5 and a
\* DoorBlock cell with BTS 3; two Air cells with BTS 4 and 2; a DoorBlock
\* cell with BTS 1 and an Air cell.
SlotLevels ==
    << <<4, 0, 0, 144, 0, 144, 0, 3>>,
       <<4, 0, 0, 0, 0, 144, 5, 3>>,
       <<4, 0, 0, 0, 0, 0, 4, 2>>,
       <<4, 0, 0, 144, 0, 0, 1, 0>> >>

SlotLevelPtr(v) == LevelPtr(40 + v)

NumSlots == MaxDoors + 4

SlotDoorPtr(j) == 33792 + (16 * j)

\* The door list of room 0 with NumSlots slots whose destinations are dests,
\* and the level data SlotLevels.
SlotSegs(dests) ==
    << Seg(rom_addr_value(143, DoorListPtr(0)),
           Flatten([j \in 1..NumSlots |-> LE16(SlotDoorPtr(j - 1))])) >>
    \o [j \in 1..NumSlots |->
          Seg(rom_addr_value(131, SlotDoorPtr(j - 1)),
              LE16(dests[j]) \o <<0, 0, 1, 2, 0, 0>> \o LE16(0) \o LE16(0))]
    \o [v \in 1..Len(SlotLevels) |->
          Seg(snes_to_rom_addr(SlotLevelPtr(v - 1), ROM_SIZE).v,
              Stored(SlotLevels[v]))]

\* The image of Image(ROM_SIZE, rooms, OkTiles) with the segments extra laid
\* over it.
ImageWith(extra, rooms) ==
    [len |-> ROM_SIZE,
     bytes |-> Overlay(extra) @@ Image(ROM_SIZE, rooms, OkTiles).bytes]

\* The destinations of the NumSlots slots: all room 1; every second slot
\* empty; a door of room 0 to itself, then empty slots; room 1 then room 2;
\* one door in slot 4.
SlotDests ==
    { [j \in 1..NumSlots |-> RoomPtr(1)],
      [j \in 1..NumSlots |-> IF j % 2 = 1 THEN 0 ELSE RoomPtr(j % NumRooms)],
      [j \in 1..NumSlots |->
         IF j = 1 THEN RoomPtr(0) ELSE IF j <= 4 THEN 0 ELSE RoomPtr(2)],
      [j \in 1..NumSlots |-> IF j = 1 THEN RoomPtr(1) ELSE RoomPtr(2)],
      [j \in 1..NumSlots |-> IF j = 4 THEN RoomPtr(1) ELSE 0] }

\* Room 0 has one or two states, each with level data of SlotLevels.
SlotStates ==
    { <<a>> : a \in 1..Len(SlotLevels) }
      \cup { <<a, b>> : a \in 1..Len(SlotLevels), b \in 1..Len(SlotLevels) }

SlotRoom(s) ==
    IF Len(s) = 1
    THEN [PlainRoom(0, NoDoors) EXCEPT !.lds = <<SlotLevelPtr(s[1] - 1)>>]
    ELSE [TwoStateRoom(0, NoDoors) EXCEPT
            !.lds = <<SlotLevelPtr(s[1] - 1), SlotLevelPtr(s[2] - 1)>>]

\* Room 0 is a SlotRoom; room 1 has one door slot, which leads back to room
\* 0; the other rooms have no doors.
SlotImages ==
    { ImageWith(SlotSegs(d),
                [i \in 1..NumRooms |->
                   CASE i = 1 -> SlotRoom(s)
                     [] i = 2 -> PlainRoom(1, [j \in 1..MaxDoors |->
                                                 IF j = 1 THEN RoomPtr(0) ELSE 0])
                     [] OTHER -> PlainRoom(0, NoDoors)]) :
        s \in SlotStates, d \in SlotDests }

\* A condition list is a sequence of [sel, op]: the selector of a condition
\* other than Default and the bytes of its operand.  The lists: none but
\* Default; DoorPointerIs and HasMorphBall; EventSet and AreaBossesDead;
\* MainAreaBossDead and HasSpeedBooster; HasPowerBombs and
\* HasMorphBallAndMissiles; DoorPointerIs whose operand is the selector of
\* Default.
CondLists ==
    { <<>>,
      << [sel |-> 58859, op |-> LE16(4660)], [sel |-> 58944, op |-> <<>>] >>,
      << [sel |-> 58898, op |-> <<3>>], [sel |-> 58921, op |-> <<1>>] >>,
      << [sel |-> 58879, op |-> <<>>], [sel |-> 59000, op |-> <<>>] >>,
      << [sel |-> 58985, op |-> <<>>], [sel |-> 58962, op |-> <<>>] >>,
      << [sel |-> 58859, op |-> LE16(58854)] >> }

\* The bytes of the conditions of conds, each followed by the pointer to its
\* state data: that of condition k is at base + 32 * (k - 1).
CondBytes(conds, base) ==
    Flatten([k \in 1..Len(conds) |->
               LE16(conds[k].sel) \o conds[k].op \o LE16(base + (32 * (k - 1)))])

\* A room at the pointer ptr of bank 0x8F with the condition list conds, then
\* Default and its state data; state k has level data LevelPtr(k) and tile
\* set k, the Default state LevelPtr(0) and tile set 0.  The door list is
\* that of room 1.
CondRoomSegs(ptr, conds, base) ==
    << Seg(rom_addr_value(143, ptr),
           <<1, 0, 0, 0, 1, 1, 0, 0, 0>> \o LE16(DoorListPtr(1))
             \o CondBytes(conds, base) \o <<230, 229>>
             \o StateDataBytes(LevelPtr(0), 0, PlmPtr(0))) >>
    \o [k \in 1..Len(conds) |->
          Seg(rom_addr_value(143, base + (32 * (k - 1))),
              StateDataBytes(LevelPtr(k), k, PlmPtr(1)))]

\* The pointer of a room whose condition list conds and Default selector
\* end with the last byte of bank 0x8F.
EdgePtr(conds) == 65536 - (13 + Len(CondBytes(conds, 0)))

\* A room at the end of bank 0x8F: the state data after its Default
\* selector is in bank 0x90, and other state data (level data LevelPtr(1),
\* tile set 5) is at the start of bank 0x8F.
EdgeRoomSegs(conds) ==
    CondRoomSegs(EdgePtr(conds), conds, StatePtr(2))
      \o << Seg(rom_addr_value(143, 32768),
                StateDataBytes(LevelPtr(1), 5, PlmPtr(1))) >>

\* The seed room has one door slot, which leads to the room at ptr.
DoorTo(ptr) ==
    PlainRoom(1, [j \in 1..MaxDoors |-> IF j = 1 THEN ptr ELSE 0])

\* The seed room leads to room 1, which has one of the condition lists, or
\* to a room at the end of bank 0x8F.
StateImages ==
    { ImageWith(CondRoomSegs(RoomPtr(1), c, StatePtr(1)),
                [i \in 1..NumRooms |->
                   IF i = 1 THEN DoorTo(RoomPtr(1)) ELSE PlainRoom(0, NoDoors)]) :
        c \in CondLists }
      \cup
    { ImageWith(EdgeRoomSegs(c),
                [i \in 1..NumRooms |->
                   IF i = 1 THEN DoorTo(EdgePtr(c)) ELSE PlainRoom(0, NoDoors)]) :
        c \in {<<>>, << [sel |-> 58898, op |-> <<3>>] >>} }

\* The inputs: an image and whether the build checks arithmetic overflow.
Inputs ==
    ((GraphImages \cup SlotImages \cup StateImages) \X {TRUE})
      \cup ((ErrImages \cup TileImages \cup SizeImages) \X BOOLEAN)

\* ---------------------------------------------------------- the program

VARIABLES
    rom_data,          \* the bytes given to SuperMetroidData::new
    overflow_checks,   \* whether the build panics on arithmetic overflow
    pc,                \* where the call is: "new", "rooms", "tile_sets", "cre", "done"
    result,            \* "none" while running, then "ok", "err" or "panic"
    failure,           \* the step that failed, "" when none did
    rooms_to_check,    \* Loader.rooms_to_check
    sm,                \* Loader.sm, the SuperMetroidData returned when result = "ok"
    decodes,           \* how many times each pointer's data was decoded
    picked,            \* the room pointers the room loop took, in order
    shadow,            \* a second call on the same rom_data (SpecPair)
    d_in,              \* decompress: the input slice (SpecDecompress)
    d_pos,             \* decompress: the cursor position
    d_out,             \* decompress: the output so far
    d_st,              \* decompress: "run", then "ok", "err" or "panic"
    d_cmd,             \* decompress: the command decoded last
    w_in,              \* a pointer or the bytes of a block word (SpecWords)
    w_out,             \* what rom_addr! or load_block_info made of w_in
    renderer,          \* a TileRenderer (SpecRender)
    img,               \* the image that render_block draws on
    r_out              \* the calls of render_block so far and their results

vars == <<rom_data, overflow_checks, pc, result, failure, rooms_to_check, sm,
          decodes, picked, shadow, d_in, d_pos, d_out, d_st, d_cmd,
          w_in, w_out, renderer, img, r_out>>

loader_vars == <<pc, result, failure, rooms_to_check, sm, decodes, picked>>

decompress_vars == <<d_in, d_pos, d_out, d_st, d_cmd>>

word_vars == <<w_in, w_out>>

render_vars == <<renderer, img, r_out>>

\* The state of one call of SuperMetroidData::new as a record.
Call == [pc |-> pc, result |-> result, failure |-> failure,
         rooms_to_check |-> rooms_to_check, sm |-> sm, decodes |-> decodes,
         picked |-> picked]

CallStart ==
    [pc |-> "new", result |-> "none", failure |-> "",
     rooms_to_check |-> {}, sm |-> LoaderNew.sm, decodes |-> LoaderNew.decodes,
     picked |-> <<>>]

\* A step of load gave r: go on at pc next with the loader r.L, or end the
\* call with the failure.  The "?" of load passes every Err on; a panic
\* unwinds through load.
Continue(S, r, next) ==
    Let(r, LAMBDA v :
      IF v.st = "ok"
      THEN [S EXCEPT !.pc = next,
                     !.rooms_to_check = v.L.rooms_to_check,
                     !.sm = v.L.sm,
                     !.decodes = v.L.decodes]
      ELSE [S EXCEPT !.pc = "done", !.result = v.st, !.failure = v.why])

LoaderOf(S) ==
    [rooms_to_check |-> S.rooms_to_check, sm |-> S.sm, decodes |-> S.decodes]

\* new with a slip: only an image that is too short is refused.
new_at_least(rom, S) ==
    IF rom.len < ROM_SIZE
    THEN [S EXCEPT !.pc = "done", !.result = "err",
                   !.failure = "Rom data is wrong size."]
    ELSE [S EXCEPT !.pc = "rooms",
                   !.rooms_to_check = LoaderNew.rooms_to_check,
                   !.sm = LoaderNew.sm,
                   !.decodes = LoaderNew.decodes]

\* SuperMetroidData::new up to the call of load.
new(rom, S) ==
    IF rom.len # ROM_SIZE
    THEN [S EXCEPT !.pc = "done", !.result = "err",
                   !.failure = "Rom data is wrong size."]
    ELSE [S EXCEPT !.pc = "rooms",
                   !.rooms_to_check = LoaderNew.rooms_to_check,
                   !.sm = LoaderNew.sm,
                   !.decodes = LoaderNew.decodes]

\* The record of the picks holds the first NumRooms + 1 of them.
Pick(S, room_ptr) ==
    IF Len(S.picked) <= NumRooms
    THEN [S EXCEPT !.picked = Append(@, room_ptr)]
    ELSE S

\* load: an iteration of the room loop on room_ptr.
load_iteration(rom, oc, S, room_ptr) ==
    Continue(Pick(S, room_ptr), load_room(rom, oc, LoaderOf(S), room_ptr),
             "rooms")

\* load: the frontier is empty, the tile set table is read.
load_after_rooms(rom, oc, S) ==
    Continue(S, load_tileset_table(rom, oc, LoaderOf(S)), "tile_sets")

\* load: the tiles and tile table of every entry.
load_entries(rom, oc, S) ==
    Continue(S, load_tile_sets(rom, oc, LoaderOf(S)), "cre")

\* Ok(self.sm) at the end of load.
Finish(S) ==
    Let(S, LAMBDA n : IF n.result = "none" THEN [n EXCEPT !.result = "ok"] ELSE n)

\* load: the CRE tiles and tile table, then Ok(self.sm).
load_finish(rom, oc, S) ==
    Finish(Continue(S, load_cre(rom, oc, LoaderOf(S)), "done"))

Set(S) ==
    \E n \in {S} :
        /\ pc' = n.pc
        /\ result' = n.result
        /\ failure' = n.failure
        /\ rooms_to_check' = n.rooms_to_check
        /\ sm' = n.sm
        /\ decodes' = n.decodes
        /\ picked' = n.picked

Idle == [pc |-> "idle"]

NoCmd == [b |-> -1, op |-> -1, size |-> 0, operands |-> 0]

NoInput == [len |-> 0, bytes |-> EmptyMap]

NoWord == [kind |-> "none"]

WordIdle ==
    /\ w_in = NoWord
    /\ w_out = NoWord

NoRenderer == [num_tiles |-> 0]

RenderIdle ==
    /\ renderer = NoRenderer
    /\ img = <<>>
    /\ r_out = <<>>

DecompressIdle ==
    /\ d_in = NoInput
    /\ d_pos = 0
    /\ d_out = <<>>
    /\ d_st = "idle"
    /\ d_cmd = NoCmd

\* A call of SuperMetroidData::new is about to start on one of the inputs.
InitCall ==
    /\ \E input \in Inputs :
          /\ rom_data = input[1]
          /\ overflow_checks = input[2]
    /\ pc = CallStart.pc
    /\ result = CallStart.result
    /\ failure = CallStart.failure
    /\ rooms_to_check = CallStart.rooms_to_check
    /\ sm = CallStart.sm
    /\ decodes = CallStart.decodes
    /\ picked = CallStart.picked

Init ==
    /\ InitCall
    /\ shadow = Idle
    /\ DecompressIdle
    /\ WordIdle
    /\ RenderIdle

New ==
    /\ pc = "new"
    /\ Set(new(rom_data, Call))
    /\ UNCHANGED <<rom_data, overflow_checks, shadow, decompress_vars, word_vars,
                   render_vars>>

\* rooms_to_check.iter().next() of a HashSet: any element.
LoadRoom ==
    /\ pc = "rooms"
    /\ \E room_ptr \in rooms_to_check :
          Set(load_iteration(rom_data, overflow_checks, Call, room_ptr))
    /\ UNCHANGED <<rom_data, overflow_checks, shadow, decompress_vars, word_vars,
                   render_vars>>

LoadTilesetTable ==
    /\ pc = "rooms"
    /\ rooms_to_check = {}
    /\ Set(load_after_rooms(rom_data, overflow_checks, Call))
    /\ UNCHANGED <<rom_data, overflow_checks, shadow, decompress_vars, word_vars,
                   render_vars>>

LoadTileSets ==
    /\ pc = "tile_sets"
    /\ Set(load_entries(rom_data, overflow_checks, Call))
    /\ UNCHANGED <<rom_data, overflow_checks, shadow, decompress_vars, word_vars,
                   render_vars>>

LoadCre ==
    /\ pc = "cre"
    /\ Set(load_finish(rom_data, overflow_checks, Call))
    /\ UNCHANGED <<rom_data, overflow_checks, shadow, decompress_vars, word_vars,
                   render_vars>>

Next ==
    \/ New
    \/ LoadRoom
    \/ LoadTilesetTable
    \/ LoadTileSets
    \/ LoadCre

Spec == Init /\ [][Next]_vars

\* The loop of load is sequential code: a call that can take a step takes it.
SpecFair == Init /\ [][Next]_vars /\ WF_vars(Next)

\* ----------------------------------------- two calls on the same rom_data

\* The second call starts when the first has ended; its frontier picks are
\* its own.
InitPair ==
    /\ InitCall
    /\ shadow = CallStart
    /\ DecompressIdle
    /\ WordIdle
    /\ RenderIdle

ShadowNew ==
    /\ pc = "done"
    /\ shadow.pc = "new"
    /\ shadow' = new(rom_data, shadow)
    /\ UNCHANGED <<rom_data, overflow_checks, loader_vars, decompress_vars, word_vars,
                   render_vars>>

ShadowLoadRoom ==
    /\ pc = "done"
    /\ shadow.pc = "rooms"
    /\ \E room_ptr \in shadow.rooms_to_check :
          shadow' = load_iteration(rom_data, overflow_checks, shadow, room_ptr)
    /\ UNCHANGED <<rom_data, overflow_checks, loader_vars, decompress_vars, word_vars,
                   render_vars>>

ShadowLoadTilesetTable ==
    /\ pc = "done"
    /\ shadow.pc = "rooms"
    /\ shadow.rooms_to_check = {}
    /\ shadow' = load_after_rooms(rom_data, overflow_checks, shadow)
    /\ UNCHANGED <<rom_data, overflow_checks, loader_vars, decompress_vars, word_vars,
                   render_vars>>

ShadowLoadTileSets ==
    /\ pc = "done"
    /\ shadow.pc = "tile_sets"
    /\ shadow' = load_entries(rom_data, overflow_checks, shadow)
    /\ UNCHANGED <<rom_data, overflow_checks, loader_vars, decompress_vars, word_vars,
                   render_vars>>

ShadowLoadCre ==
    /\ pc = "done"
    /\ shadow.pc = "cre"
    /\ shadow' = load_finish(rom_data, overflow_checks, shadow)
    /\ UNCHANGED <<rom_data, overflow_checks, loader_vars, decompress_vars, word_vars,
                   render_vars>>

NextPair ==
    \/ New
    \/ LoadRoom
    \/ LoadTilesetTable
    \/ LoadTileSets
    \/ LoadCre
    \/ ShadowNew
    \/ ShadowLoadRoom
    \/ ShadowLoadTilesetTable
    \/ ShadowLoadTileSets
    \/ ShadowLoadCre

SpecPair == InitPair /\ [][NextPair]_vars

\* ------------------------------------------------- decompress, by command

\* The longest operand tail of an input.
MaxTail == 3

\* The bytes the operand tails are made of.
TailBytes == {0, 2, 255}

Tails == UNION {[1..n -> TailBytes] : n \in 0..MaxTail}

\* What precedes the command: nothing, or a DirectCopy of three bytes.
Prefixes == {<<>>, <<2, 17, 34, 51>>}

\* The byte strings of the tests of compression.rs.
TestInputs ==
    { <<2, 1, 2, 3, 255>>, <<34, 1, 255>>, <<67, 85, 170, 255>>,
      <<68, 85, 170, 255>>, <<100, 1, 255>>, <<100, 254, 255>>,
      <<100, 1, 130, 1, 0, 255>>, <<100, 1, 162, 1, 0, 255>>,
      <<100, 1, 194, 3, 255>>, <<100, 1, 252, 2, 3, 255>> }

\* The byte source over the bytes q.
Slice(q) == [len |-> Len(q), bytes |-> [k \in 0..(Len(q) - 1) |-> q[k + 1]]]

\* The first bytes a SigmaFill is given, and the lengths it is given with
\* every first byte.
SigmaBytes == {0, 1, 127, 128, 200, 254, 255}

SigmaSizes == {1, 2, 32, 33, 255, 256, 257, 511, 512, 513, 768, 1023, 1024}

\* SigmaFill of n bytes from x in its extended form, and the terminator.
SigmaCmd(x, n) == <<236 + ((n - 1) \div 256), (n - 1) % 256, x, 255>>

\* d_in is a SigmaFill in its extended or its short form.
SigmaInputs ==
    \/ \E x \in SigmaBytes, n \in 1..1024 : d_in = Slice(SigmaCmd(x, n))
    \/ \E x \in 0..255, n \in SigmaSizes : d_in = Slice(SigmaCmd(x, n))
    \/ \E x \in 0..255, n \in 1..32 : d_in = Slice(<<96 + (n - 1), x, 255>>)

\* d_in is a prefix, any control byte and a tail, or a test's input, or a
\* SigmaFill.
DecompressInputs ==
    \/ \E p \in Prefixes, b \in 0..255, tl \in Tails :
          d_in = Slice(p \o <<b>> \o tl)
    \/ \E q \in TestInputs : d_in = Slice(q)
    \/ SigmaInputs

InitDecompress ==
    /\ rom_data = NoInput
    /\ overflow_checks = TRUE
    /\ pc = "idle"
    /\ result = CallStart.result
    /\ failure = CallStart.failure
    /\ rooms_to_check = CallStart.rooms_to_check
    /\ sm = CallStart.sm
    /\ decodes = CallStart.decodes
    /\ picked = CallStart.picked
    /\ shadow = Idle
    /\ DecompressInputs
    /\ d_pos = 0
    /\ d_out = <<>>
    /\ d_st = "run"
    /\ d_cmd = NoCmd
    /\ WordIdle
    /\ RenderIdle

\* What an iteration c of the loop leaves: the loop goes on after a
\* command, Ok(out) at the terminator, and no output with an Err or a panic.
decompress_step(c) ==
    [st |-> CASE c.st = "ok" -> "run"
              [] c.st = "done" -> "ok"
              [] OTHER -> c.st,
     pos |-> c.pos,
     out |-> IF c.st \in {"ok", "done"} THEN c.out ELSE <<>>,
     cmd |-> [b |-> c.b, op |-> c.op, size |-> c.size, operands |-> c.operands]]

SetDecompress(S) ==
    \E n \in {S} :
        /\ d_st' = n.st
        /\ d_pos' = n.pos
        /\ d_out' = n.out
        /\ d_cmd' = n.cmd

\* One iteration of the loop of decompress.
DecompressStep ==
    /\ d_st = "run"
    /\ SetDecompress(decompress_step(decompress_cmd(d_in, d_pos, d_out)))
    /\ UNCHANGED <<rom_data, overflow_checks, loader_vars, shadow, d_in, word_vars,
                   render_vars>>

NextDecompress == DecompressStep

SpecDecompress == InitDecompress /\ [][NextDecompress]_vars

\* The step machine and decompress agree on every input.
DecompressAgrees ==
    d_st \in {"ok", "err", "panic"} =>
        /\ decompress(d_in, 0).st = d_st
        /\ decompress(d_in, 0).out = d_out

\* ------------------------------------------- pointers and block words

\* Every u16 short pointer, in builds with and without overflow checks.
PointerInputs == \E x \in 0..65535 : w_in = [kind |-> "pointer", v |-> x]

\* Every pair of bytes a block word is read from, and two readers that end
\* before the word does.
BlockInputs ==
    \/ \E lo \in 0..255, hi \in 0..255 : w_in = [kind |-> "block", bytes |-> <<lo, hi>>]
    \/ w_in \in { [kind |-> "block", bytes |-> <<>>], [kind |-> "block", bytes |-> <<165>>] }

MaxLevelLen == 12

\* Byte i (from 0) of level data of fill f.
LevelFill(f, i) == (f * (i + 1)) % 256

\* Level data of L bytes: the word w, cut to L bytes, then bytes of fill f.
LevelData(L, w, f) ==
    [i \in 1..L |-> IF i <= 2 THEN LE16(w)[i] ELSE LevelFill(f, i - 3)]

\* The bytes given to load_room_data: every length up to MaxLevelLen, a
\* first word of up to MaxLevelLen or one that asks for 128 or 32767
\* blocks, and three fills (144 makes DoorBlock cells).
LevelInputs ==
    \E L \in 0..MaxLevelLen, w \in 0..MaxLevelLen \cup {256, 65535},
       f \in {0, 144, 37} :
        w_in = [kind |-> "level", bytes |-> LevelData(L, w, f)]

\* The buffers given to de_planar_tiles: up to two tiles and trailing bytes
\* filled with an arithmetic progression, and two tiles in which one bit of
\* one byte is set, followed by three trailing bytes.
TileLens == {0, 31, 32, 33, 63, 64, 67}

TileInputs ==
    \/ \E n \in TileLens, a \in {0, 1, 7, 85}, b \in {0, 19, 170, 255} :
          w_in = [kind |-> "tiles",
                  bytes |-> [i \in 1..n |-> ((a * i) + b) % 256]]
    \/ \E j \in 0..63, m \in 0..7 :
          w_in = [kind |-> "tiles",
                  bytes |-> [i \in 1..67 |->
                               IF i = j + 1 THEN 2 ^ m
                               ELSE IF i > 64 THEN 255 ELSE 0]]

InitWords ==
    /\ rom_data = NoInput
    /\ pc = "idle"
    /\ result = CallStart.result
    /\ failure = CallStart.failure
    /\ rooms_to_check = CallStart.rooms_to_check
    /\ sm = CallStart.sm
    /\ decodes = CallStart.decodes
    /\ picked = CallStart.picked
    /\ shadow = Idle
    /\ DecompressIdle
    /\ \/ PointerInputs /\ overflow_checks \in BOOLEAN
       \/ BlockInputs /\ overflow_checks = TRUE
       \/ LevelInputs /\ overflow_checks \in BOOLEAN
       \/ TileInputs /\ overflow_checks = TRUE
    /\ w_out = NoWord
    /\ RenderIdle

\* rom_addr!(0x8f, ptr) on a u16 pointer, and rom_addr_to_snes16! of the
\* address it gives.
room_addr_round_trip(oc, ptr) ==
    Let(rom_addr(oc, 143, ptr), LAMBDA a :
      IF a.st # "ok"
      THEN [kind |-> "pointer", st |-> a.st, rom |-> 0, snes16 |-> 0]
      ELSE [kind |-> "pointer", st |-> "ok", rom |-> a.v,
            snes16 |-> rom_addr_to_snes16(a.v)])

\* load_block_info(r) on a reader r over the bytes q: the u16 is read
\* little-endian and a short read is an Err.
read_block_info(q) ==
    IF ~Avail(Slice(q), 0, 2)
    THEN [kind |-> "block", st |-> "err"]
    ELSE [kind |-> "block", st |-> "ok",
          info |-> load_block_info(read_u16(Slice(q), 0))]

RomAddr ==
    /\ w_in.kind = "pointer"
    /\ w_out = NoWord
    /\ w_out' = room_addr_round_trip(overflow_checks, w_in.v)
    /\ UNCHANGED <<rom_data, overflow_checks, loader_vars, shadow,
                   decompress_vars, w_in, render_vars>>

LoadBlockInfo ==
    /\ w_in.kind = "block"
    /\ w_out = NoWord
    /\ w_out' = read_block_info(w_in.bytes)
    /\ UNCHANGED <<rom_data, overflow_checks, loader_vars, shadow,
                   decompress_vars, w_in, render_vars>>

\* Loader::load_room_data(&data) on the bytes of w_in.
LoadRoomData ==
    /\ w_in.kind = "level"
    /\ w_out = NoWord
    /\ w_out' = [kind |-> "level",
                 res |-> load_room_data(overflow_checks, w_in.bytes)]
    /\ UNCHANGED <<rom_data, overflow_checks, loader_vars, shadow,
                   decompress_vars, w_in, render_vars>>

\* TileRenderer::get_pixel(data, x, y) on the de-planarised tile that
\* starts at index base of the sequence data.
TileRenderer_get_pixel(data, base, x, y) ==
    IF x % 2 = 1
    THEN data[base + (y * 4) + (x \div 2) + 1] \div 16
    ELSE data[base + (y * 4) + (x \div 2) + 1] % 16

\* de_planar_tiles(&mut data) on the bytes of w_in.
DePlanarTiles ==
    /\ w_in.kind = "tiles"
    /\ w_out = NoWord
    /\ w_out' = [kind |-> "tiles", data |-> de_planar_tiles(w_in.bytes)]
    /\ UNCHANGED <<rom_data, overflow_checks, loader_vars, shadow,
                   decompress_vars, w_in, render_vars>>

NextWords ==
    \/ RomAddr
    \/ LoadBlockInfo
    \/ LoadRoomData
    \/ DePlanarTiles

SpecWords == InitWords /\ [][NextWords]_vars

\* ------------------------------------------------ graphics.rs: TileRenderer

CRE_INDEX_START == 640

TILE_H == 8

TILE_W == 8

BYTES_PER_TILE == (TILE_H * TILE_W) \div 2

\* TileRenderer::new on the bytes of the CRE and SCE tiles, a palette (a
\* sequence of colours) and the entries of the two tile tables.  The sheet
\* is a byte source of num_tiles * 32 bytes; a write past its end panics.
TileRenderer_new(cre, sce, palette, cre_table, sce_table) ==
    LET cre_tiles == Len(cre) \div BYTES_PER_TILE
        sce_tiles == Len(sce) \div BYTES_PER_TILE
        num_tiles == CRE_INDEX_START + cre_tiles
        cre_offset == CRE_INDEX_START * BYTES_PER_TILE
    IN  IF Len(sce) > num_tiles * BYTES_PER_TILE
           \/ cre_offset + Len(cre) > num_tiles * BYTES_PER_TILE
        THEN Fail("panic", "index out of bounds")
        ELSE [st |-> "ok",
              r |-> [num_tiles |-> num_tiles,
                     cre_tiles |-> cre_tiles,
                     sce_tiles |-> sce_tiles,
                     graphics_sheet |->
                         [len |-> num_tiles * BYTES_PER_TILE,
                          bytes |-> Seg(cre_offset, cre) @@ Seg(0, sce)],
                     palette |-> palette,
                     cre_table |-> cre_table,
                     sce_table |-> sce_table]]

\* get_tile: the offset in the sheet at which the tile's slice starts.
get_tile(R, index) ==
    IF index >= R.num_tiles
    THEN Fail("err", "tile out of range")
    ELSE [st |-> "ok", v |-> index * BYTES_PER_TILE]

\* The pixels that render_tile writes are those before the first one that
\* lies outside the image, in the order of its loops (y1 outer, x1 inner);
\* img.get_pixel_mut panics on that one.
ImgW == 3 * TILE_W

ImgH == 2 * TILE_H

InImg(px, py) == px < ImgW /\ py < ImgH

FirstOutside(x, y) ==
    IF \A y1 \in 0..(TILE_H - 1), x1 \in 0..(TILE_W - 1) : InImg(x + x1, y + y1)
    THEN TILE_H * TILE_W
    ELSE CHOOSE n \in 0..((TILE_H * TILE_W) - 1) :
           /\ ~InImg(x + (n % TILE_W), y + (n \div TILE_W))
           /\ \A m \in 0..(n - 1) : InImg(x + (m % TILE_W), y + (m \div TILE_W))

\* render_tile on the tile at offset base of the sheet, with the colours
\* of the palette from index first on.
render_tile(R, base, image, first, x, y, flip_h, flip_v) ==
    IF Len(R.palette) - first < 16
    THEN [st |-> "panic", why |-> "assertion failed", img |-> image]
    ELSE LET tile == [k \in 1..BYTES_PER_TILE |->
                        Byte(R.graphics_sheet, base + k - 1)]
             last == FirstOutside(x, y)
             val(x1, y1) ==
                 TileRenderer_get_pixel(tile, 0,
                     IF flip_h THEN 7 - x1 ELSE x1,
                     IF flip_v THEN 7 - y1 ELSE y1)
             rgba(v) == <<R.palette[first + v + 1].r, R.palette[first + v + 1].g,
                          R.palette[first + v + 1].b, IF v = 0 THEN 0 ELSE 255>>
         IN  [st |-> IF last < TILE_H * TILE_W THEN "panic" ELSE "ok",
              why |-> IF last < TILE_H * TILE_W THEN "pixel outside the image"
                      ELSE "",
              img |-> [p \in DOMAIN image |->
                         IF /\ p[1] >= x /\ p[1] < x + TILE_W
                            /\ p[2] >= y /\ p[2] < y + TILE_H
                            /\ ((p[2] - y) * TILE_W) + (p[1] - x) < last
                         THEN rgba(val(p[1] - x, p[2] - y))
                         ELSE image[p]]]

\* get_block_data with a slip: an index at the end of the tables passes
\* the range test.
get_block_data_inclusive(R, index) ==
    LET tile_index == index * 4
        cre_entries == Len(R.cre_table)
        sce_entries == Len(R.sce_table)
    IN  IF tile_index < cre_entries
        THEN [st |-> "ok",
              entries |-> SubSeq(R.cre_table, tile_index + 1, cre_entries)]
        ELSE IF tile_index <= cre_entries + sce_entries
        THEN [st |-> "ok",
              entries |-> SubSeq(R.sce_table, (tile_index - cre_entries) + 1,
                                 sce_entries)]
        ELSE Fail("err", "tile index out of range")

\* get_block_data: the entries of one table from index * 4 on.
get_block_data(R, index) ==
    LET tile_index == index * 4
        cre_entries == Len(R.cre_table)
        sce_entries == Len(R.sce_table)
    IN  IF tile_index < cre_entries
        THEN [st |-> "ok",
              entries |-> SubSeq(R.cre_table, tile_index + 1, cre_entries)]
        ELSE IF tile_index < cre_entries + sce_entries
        THEN [st |-> "ok",
              entries |-> SubSeq(R.sce_table, (tile_index - cre_entries) + 1,
                                 sce_entries)]
        ELSE Fail("err", "tile index out of range")

\* The loop of render_block from sub_tile on: block_data[sub_tile] panics
\* when the slice is shorter, an Err of get_tile ends the call, and what was
\* drawn before stays in the image.
RECURSIVE render_block_loop(_, _, _, _, _, _, _, _)
render_block_loop(R, image, block_data, sub_tile, x, y, flip_h, flip_v) ==
    IF sub_tile >= 4
    THEN [st |-> "ok", why |-> "", img |-> image]
    ELSE IF sub_tile >= Len(block_data)
    THEN [st |-> "panic", why |-> "index out of bounds", img |-> image]
    ELSE LET entry == block_data[sub_tile + 1]
             tile == get_tile(R, entry.index)
             x_offset == IF (sub_tile % 2 = 1) # flip_h THEN 8 ELSE 0
             y_offset == IF (sub_tile >= 2) # flip_v THEN 8 ELSE 0
         IN  IF tile.st # "ok"
             THEN [st |-> tile.st, why |-> tile.why, img |-> image]
             ELSE Let(render_tile(R, tile.v, image, entry.palette * 16,
                                  x + x_offset, y + y_offset,
                                  entry.flip_h # flip_h, entry.flip_v # flip_v),
                      LAMBDA t :
                        IF t.st # "ok"
                        THEN t
                        ELSE render_block_loop(R, t.img, block_data,
                                               sub_tile + 1, x, y,
                                               flip_h, flip_v))

\* render_block(img, index, x, y, flip_h, flip_v) on the renderer R.
render_block(R, image, index, x, y, flip_h, flip_v) ==
    Let(get_block_data(R, index), LAMBDA b :
      IF b.st # "ok"
      THEN [st |-> b.st, why |-> b.why, img |-> image]
      ELSE render_block_loop(R, image, b.entries, 0, x, y, flip_h, flip_v))

\* The inputs of a renderer: one CRE tile and one SCE tile, a palette of
\* 128 colours, and tile tables.
Entry(index, palette, flip_h, flip_v) ==
    [index |-> index, palette |-> palette, flip_h |-> flip_h, flip_v |-> flip_v]

CreTile == [k \in 1..BYTES_PER_TILE |-> ((11 * k) + 5) % 256]

SceTile == [k \in 1..BYTES_PER_TILE |-> ((37 * k) + 1) % 256]

Colors ==
    [i \in 1..128 |-> [r |-> (i % 32) * 8, g |-> ((i \div 4) % 32) * 8,
                       b |-> ((i * 3) % 32) * 8]]

\* A block of the CRE tile and the SCE tile, flipped in the four ways.
GoodBlock ==
    << Entry(CRE_INDEX_START, 0, FALSE, FALSE), Entry(0, 1, TRUE, FALSE),
       Entry(CRE_INDEX_START, 2, FALSE, TRUE), Entry(0, 7, TRUE, TRUE) >>

\* A block whose second entry names a tile past the sheet.
BadTileBlock ==
    << Entry(0, 3, FALSE, FALSE), Entry(CRE_INDEX_START + 1, 0, FALSE, FALSE),
       Entry(0, 4, FALSE, FALSE), Entry(0, 5, FALSE, FALSE) >>

\* The tile tables: a block each; a CRE table of six entries and an SCE
\* table of two, so that block 1 straddles the tables; no entries at all;
\* two blocks in the SCE table.
RenderTables ==
    { <<GoodBlock, BadTileBlock>>,
      <<GoodBlock \o SubSeq(BadTileBlock, 1, 2), SubSeq(GoodBlock, 1, 2)>>,
      << <<>>, <<>> >>,
      << <<>>, BadTileBlock \o GoodBlock >> }

MaxCalls == 2

\* The arguments of a call: the block, where it goes and how it is flipped.
\* At x = 0 the block is inside the image and is flipped in every way; at
\* x = 16 its right half is outside, and it is flipped both ways or not at
\* all.
RenderArgs ==
    { a \in [index : 0..2, x : {0, 2 * TILE_W}, y : {0}, flip_h : BOOLEAN,
             flip_v : BOOLEAN] : a.x = 0 \/ a.flip_h = a.flip_v }

Blank == [p \in (0..(ImgW - 1)) \X (0..(ImgH - 1)) |-> <<0, 0, 0, 0>>]

InitRender ==
    /\ rom_data = NoInput
    /\ overflow_checks = TRUE
    /\ pc = "idle"
    /\ result = CallStart.result
    /\ failure = CallStart.failure
    /\ rooms_to_check = CallStart.rooms_to_check
    /\ sm = CallStart.sm
    /\ decodes = CallStart.decodes
    /\ picked = CallStart.picked
    /\ shadow = Idle
    /\ DecompressIdle
    /\ WordIdle
    /\ \E t \in RenderTables :
          renderer = TileRenderer_new(CreTile, SceTile, Colors, t[1], t[2]).r
    /\ img = Blank
    /\ r_out = <<>>

\* A call of render_block: the renderer is borrowed immutably, the image
\* mutably.
RenderBlock ==
    /\ renderer # NoRenderer
    /\ Len(r_out) < MaxCalls
    /\ \E a \in RenderArgs :
          \E r \in {render_block(renderer, img, a.index, a.x, a.y,
                                 a.flip_h, a.flip_v)} :
              /\ img' = r.img
              /\ r_out' = Append(r_out, [args |-> a, st |-> r.st, why |-> r.why])
    /\ UNCHANGED <<rom_data, overflow_checks, loader_vars, shadow,
                   decompress_vars, word_vars, renderer>>

NextRender == RenderBlock

SpecRender == InitRender /\ [][NextRender]_vars

\* ------------------------------------------------------------ the claims

\* The doors of the rooms of a model m.
Doors(m) ==
    UNION { { m.room_mdb[p].door_list[i] : i \in 1..Len(m.room_mdb[p].door_list) } :
              p \in DOMAIN m.room_mdb }

\* The states of the rooms of a model m.
States(m) ==
    UNION { { m.room_mdb[p].states[i] : i \in 1..Len(m.room_mdb[p].states) } :
              p \in DOMAIN m.room_mdb }

\* C1: after a successful load, every non-zero door destination of every
\* room of room_mdb is itself a key of room_mdb.
C1_DoorsClosed ==
    result = "ok" =>
        \A d \in Doors(sm) :
            d.dest_room_ptr # 0 => d.dest_room_ptr \in DOMAIN sm.room_mdb

\* A load that succeeded with every room loaded, one of them through a door
\* of another room.
C1_Witness ==
    /\ result = "ok"
    /\ Cardinality(DOMAIN sm.room_mdb) = NumRooms
    /\ \E p \in DOMAIN sm.room_mdb :
          \E i \in 1..Len(sm.room_mdb[p].door_list) :
              sm.room_mdb[p].door_list[i].dest_room_ptr \in DOMAIN sm.room_mdb \ {p}

\* C2: after a successful load, the level data pointer and the PLM pointer
\* of every state of every room are keys of level_data and plm_population.
C2_StatePointersCached ==
    result = "ok" =>
        \A s \in States(sm) :
            /\ s.data.level_data \in DOMAIN sm.level_data
            /\ s.data.plm_ptr \in DOMAIN sm.plm_population

\* A load that succeeded with a room of two states that differ in their
\* level data, and with both an empty and a non-empty PLM list.
C2_Witness ==
    /\ result = "ok"
    /\ \E p \in DOMAIN sm.room_mdb :
          /\ Len(sm.room_mdb[p].states) = 2
          /\ sm.room_mdb[p].states[1].data.level_data
               # sm.room_mdb[p].states[2].data.level_data
    /\ \E k, l \in DOMAIN sm.plm_population :
          sm.plm_population[k] = <<>> /\ sm.plm_population[l] # <<>>

\* What a call that ended gives its caller: a model, or a failure.
Outcome(S) ==
    IF S.result = "ok"
    THEN [success |-> TRUE, sm |-> S.sm]
    ELSE [success |-> FALSE]

\* C3: two calls on the same ROM, whatever elements of the frontier each
\* picks, both fail or both succeed, and succeed with the same model.
C3_OrderIndependent ==
    (pc = "done" /\ shadow.pc = "done") => Outcome(Call) = Outcome(shadow)

\* Two calls that succeeded after picking the rooms in different orders.
C3_Witness ==
    /\ pc = "done"
    /\ shadow.pc = "done"
    /\ result = "ok"
    /\ shadow.result = "ok"
    /\ picked # shadow.picked

\* Two successful calls agree, but a failing ROM can fail at a different
\* step, and in a different way, for a different order.
C3_FailureDiffers ==
    /\ pc = "done"
    /\ shadow.pc = "done"
    /\ result = "err"
    /\ shadow.result = "panic"

\* C4: during one load the data behind a pointer is decoded at most once:
\* level data, PLM lists, tiles and tile tables.
C4_DecodedAtMostOnce ==
    \A cache \in DOMAIN decodes :
        \A ptr \in DOMAIN decodes[cache] : decodes[cache][ptr] <= 1

\* The part of C4 that holds: tiles and tile tables.
C4_TilesDecodedOnce ==
    \A cache \in {"tiles", "tile_tables"} :
        \A ptr \in DOMAIN decodes[cache] : decodes[cache][ptr] <= 1

\* An iteration of the room loop that did not fail.
RoomLoaded == pc = "rooms" /\ pc' = "rooms"

\* C5: load terminates.  Every iteration of the room loop that does not
\* fail moves one pointer from the frontier to room_mdb, and leaves no
\* pointer of room_mdb in the frontier.
C5_Terminates ==
    /\ <>(pc = "done")
    /\ [][RoomLoaded =>
            /\ \E p \in rooms_to_check :
                  /\ p \notin rooms_to_check'
                  /\ p \notin DOMAIN sm.room_mdb
                  /\ DOMAIN sm'.room_mdb = DOMAIN sm.room_mdb \cup {p}
            /\ rooms_to_check' \cap DOMAIN sm'.room_mdb = {}]_vars

\* A load that ended with every room loaded although a door leads back to
\* the room the load started from.
C5_Witness ==
    /\ pc = "done"
    /\ result = "ok"
    /\ Len(picked) = NumRooms
    /\ \E d \in Doors(sm) : d.dest_room_ptr = picked[1]

\* C6: new fails for every length other than 0x300000, before anything is
\* parsed, and the length check does not fail for the length 0x300000.
C6_LengthChecked ==
    pc # "new" =>
        IF rom_data.len = 3145728
        THEN failure # "Rom data is wrong size."
        ELSE /\ pc = "done"
             /\ result = "err"
             /\ failure = "Rom data is wrong size."
             /\ picked = <<>>
             /\ rooms_to_check = {}
             /\ sm = LoaderNew.sm
             /\ \A cache \in DOMAIN decodes : decodes[cache] = EmptyMap

\* An image one byte too long was refused.
C6_Witness ==
    /\ pc = "done"
    /\ rom_data.len = 3145729
    /\ result = "err"

\* The failures C7 lists: an unknown Area, state condition selector, Event
\* or tile set id, a short read, a decompression error, wrong-sized room
\* data.
ListedFailures ==
    {"unknown area", "unknown state condition", "unknown event",
     "unknown tile set", "short read", "back-reference outside the output",
     "wrong sized room data"}

\* C7: a step of load that fails in one of the listed ways makes load
\* return an error value.
C7_FailureIsErrorValue ==
    (pc = "done" /\ failure \in ListedFailures) => result = "err"

\* The part of C7 that holds: a call in which a step failed never gives a
\* model, and a call that gives a model has loaded all of it.
C7_NoPartialSuccess ==
    /\ failure # "" => result \in {"err", "panic"}
    /\ result = "ok" => failure = "" /\ rooms_to_check = {}

\* C8: after a successful load, the three pointers of every tile set entry
\* are keys of tiles, tile_tables and palettes.
C8_TileSetPointersCached ==
    result = "ok" =>
        \A i \in 1..Len(sm.tile_sets) :
            /\ sm.tile_sets[i].tiles_ptr \in DOMAIN sm.tiles
            /\ sm.tile_sets[i].tile_table_ptr \in DOMAIN sm.tile_tables
            /\ "palettes" \in DOMAIN sm
            /\ sm.tile_sets[i].palette_ptr \in DOMAIN sm.palettes

\* The part of C8 that holds: the tiles and the tile table of every entry.
C8_TilesAndTablesCached ==
    result = "ok" =>
        /\ Len(sm.tile_sets) = 29
        /\ \A i \in 1..Len(sm.tile_sets) :
              /\ sm.tile_sets[i].tiles_ptr \in DOMAIN sm.tiles
              /\ sm.tile_sets[i].tile_table_ptr \in DOMAIN sm.tile_tables

\* C9: after a successful load, tiles has the key 0xB98000 and tile_tables
\* the key 0xB9A09D, the banked forms of CRE_TILES and CRE_TILE_TABLE.
C9_CreCached ==
    result = "ok" =>
        /\ rom_addr_to_snes(CRE_TILES) = 12156928
        /\ rom_addr_to_snes(CRE_TILE_TABLE) = 12165277
        /\ 12156928 \in DOMAIN sm.tiles
        /\ 12165277 \in DOMAIN sm.tile_tables

\* A load that succeeded on a ROM no tile set entry of which refers to the
\* CRE tiles or the CRE tile table.
C9_Witness ==
    /\ result = "ok"
    /\ Len(sm.tile_sets) > 0
    /\ \A i \in 1..Len(sm.tile_sets) :
          /\ sm.tile_sets[i].tiles_ptr # 12156928
          /\ sm.tile_sets[i].tile_table_ptr # 12165277

\* An iteration of the loop of decompress that completed a command.
CommandDone == d_st = "run" /\ d_st' = "run"

\* C10: a control byte b other than 0xFF with b >> 5 # 7 has op b >> 5 and
\* length (b & 0x1F) + 1; with b >> 5 = 7 it has op (b >> 2) & 7 and length
\* (((b & 3) << 8) | next byte) + 1, the next byte being the one extra byte
\* consumed; the command appends exactly length bytes to the output.
C10_ControlByte ==
    [][CommandDone =>
          /\ Byte(d_in, d_pos) # 255
          /\ d_cmd'.b = Byte(d_in, d_pos)
          /\ IF Byte(d_in, d_pos) \div 32 # 7
             THEN /\ d_cmd'.op = Byte(d_in, d_pos) \div 32
                  /\ d_cmd'.size = (Byte(d_in, d_pos) % 32) + 1
                  /\ d_cmd'.size \in 1..32
                  /\ d_cmd'.operands = d_pos + 1
             ELSE /\ d_cmd'.op = (Byte(d_in, d_pos) \div 4) % 8
                  /\ d_cmd'.size = ((Byte(d_in, d_pos) % 4) * 256)
                                     + Byte(d_in, d_pos + 1) + 1
                  /\ d_cmd'.size \in 1..1024
                  /\ d_cmd'.operands = d_pos + 2
          /\ d_pos' >= d_cmd'.operands
          /\ Len(d_out') = Len(d_out) + d_cmd'.size
          /\ SubSeq(d_out', 1, Len(d_out)) = d_out]_vars

\* An extended command of more than 256 bytes was completed.
C10_Witness ==
    /\ d_st = "run"
    /\ d_cmd.b \div 32 = 7
    /\ d_cmd.size > 256
    /\ Len(d_out) >= d_cmd.size

\* The first n bytes of the input of decompress.
Consumed(n) == [i \in 1..n |-> Byte(d_in, i - 1)]

\* What may follow the terminator in another input.
Trailers == {<<>>, <<0>>, <<255>>, <<2, 255>>, <<128, 0, 0, 255>>}

\* C11: decompress stops with Ok at the first 0xFF read as a control byte
\* and returns the output produced so far; the bytes after the terminator
\* are not read, so every input that agrees with this one up to and
\* including the terminator gives the same output.
C11_Terminator ==
    /\ [](d_st = "ok" =>
            /\ d_pos >= 1
            /\ Byte(d_in, d_pos - 1) = 255
            /\ \A tl \in Trailers :
                  decompress(Slice(Consumed(d_pos) \o tl), 0)
                    = [st |-> "ok", out |-> d_out])
    /\ [][(d_st = "run" /\ Avail(d_in, d_pos, 1) /\ Byte(d_in, d_pos) = 255) =>
            (d_st' = "ok" /\ d_out' = d_out /\ d_pos' = d_pos + 1)]_vars

\* A stream that ended at its terminator with bytes left unread, after a
\* 0xFF that was read as an operand.
C11_Witness ==
    /\ d_st = "ok"
    /\ d_pos < d_in.len
    /\ Len(d_out) > 0
    /\ \E i \in 0..(d_pos - 2) : Byte(d_in, i) = 255

\* C12: LibraryCopy with operand p and length n, p being a position of the
\* output, succeeds and appends for i = 0..n-1 the byte at position p + i of
\* the output as it stands when byte i is appended, also when the source
\* range runs into the bytes being appended.
C12_LibraryCopy ==
    [][(d_st = "run" /\ d_cmd'.op = 4 /\ Avail(d_in, d_cmd'.operands, 2)
          /\ read_u16(d_in, d_cmd'.operands) < Len(d_out)) =>
          /\ d_st' = "run"
          /\ d_pos' = d_cmd'.operands + 2
          /\ Len(d_out') = Len(d_out) + d_cmd'.size
          /\ SubSeq(d_out', 1, Len(d_out)) = d_out
          /\ \A i \in 0..(d_cmd'.size - 1) :
                d_out'[Len(d_out) + i + 1]
                  = d_out'[read_u16(d_in, d_cmd'.operands) + i + 1]]_vars

\* A LibraryCopy whose source range ran into the bytes it appended.
C12_Witness ==
    /\ d_st = "run"
    /\ d_cmd.op = 4
    /\ d_cmd.size >= 2
    /\ d_pos = d_cmd.operands + 2
    /\ read_u16(d_in, d_cmd.operands) < Len(d_out) - d_cmd.size
    /\ Len(d_out) - d_cmd.size <= read_u16(d_in, d_cmd.operands) + d_cmd.size - 1
    /\ d_out[Len(d_out)] = d_out[Len(d_out) - 1]

\* A XorCopy whose operand is a position of the output is about to run.
XorCopyReady ==
    /\ d_st = "run"
    /\ d_cmd'.op = 5
    /\ Avail(d_in, d_cmd'.operands, 2)
    /\ read_u16(d_in, d_cmd'.operands) < Len(d_out)

\* What LibraryCopy does with the operands and the output of the command.
AsLibraryCopy == apply_op(d_in, d_cmd'.operands, d_out, 4, d_cmd'.size)

\* C13 as stated: for the same prior output, operand and length, XorCopy
\* appends the bytes LibraryCopy would append, each XORed with 0xFF, also
\* when the source range overlaps the bytes being appended.
C13_XorIsLibraryXor ==
    [][XorCopyReady =>
          \A lib \in {AsLibraryCopy} :
            /\ d_st' = "run"
            /\ lib.st = "ok"
            /\ Len(d_out') = Len(lib.out)
            /\ \A i \in (Len(d_out) + 1)..Len(d_out') :
                  d_out'[i] = 255 - lib.out[i]]_vars

\* C13 amended: XorCopy and LibraryCopy succeed on the same operands; byte i
\* of XorCopy is byte i of LibraryCopy XORed with 0xFF when the source range
\* lies in the prior output, and in general when i \div (len(out) - p) is
\* even, and it is byte i of LibraryCopy itself when that quotient is odd
\* (the byte read was complemented when it was appended).
C13_XorCopyAmended ==
    [][XorCopyReady =>
          \A lib \in {AsLibraryCopy} :
            /\ d_st' = "run"
            /\ lib.st = "ok"
            /\ Len(d_out') = Len(lib.out)
            /\ SubSeq(d_out', 1, Len(d_out)) = d_out
            /\ \A i \in 0..(d_cmd'.size - 1) :
                  d_out'[Len(d_out) + i + 1] =
                    IF ((i \div (Len(d_out) - read_u16(d_in, d_cmd'.operands))) % 2) = 0
                    THEN 255 - lib.out[Len(d_out) + i + 1]
                    ELSE lib.out[Len(d_out) + i + 1]]_vars

\* A XorCopy whose source range ran into the bytes it appended and read
\* back a byte it had complemented.
C13_Witness ==
    /\ d_st = "run"
    /\ d_cmd.op = 5
    /\ d_cmd.size >= 3
    /\ d_pos = d_cmd.operands + 2
    /\ read_u16(d_in, d_cmd.operands) < Len(d_out) - d_cmd.size
    /\ Len(d_out) - d_cmd.size <= read_u16(d_in, d_cmd.operands) + d_cmd.size - 1
    /\ d_out[Len(d_out)] # d_out[Len(d_out) - 1]

\* C14: a control byte 0xFC, 0xFD or 0xFE is an extended command with inner
\* op 7: after the size byte it reads one byte d and, d being in
\* 1..len(out), appends out[p + i] ^ 0xFF for i = 0..n-1 with
\* p = len(out) - d fixed before the command; the header is two bytes, no
\* further extension is decoded.
C14_ExtendedSeven ==
    [][(d_st = "run" /\ Byte(d_in, d_pos) \in {252, 253, 254}
          /\ Avail(d_in, d_pos, 3)
          /\ Byte(d_in, d_pos + 2) \in 1..Len(d_out)) =>
          /\ d_st' = "run"
          /\ d_cmd'.op = 7
          /\ d_cmd'.size = ((Byte(d_in, d_pos) % 4) * 256) + Byte(d_in, d_pos + 1) + 1
          /\ d_pos' = d_pos + 3
          /\ Len(d_out') = Len(d_out) + d_cmd'.size
          /\ SubSeq(d_out', 1, Len(d_out)) = d_out
          /\ \A i \in 0..(d_cmd'.size - 1) :
                d_out'[Len(d_out) + i + 1]
                  = 255 - d_out'[Len(d_out) - Byte(d_in, d_pos + 2) + i + 1]]_vars

\* An extended command with inner op 7 of more than 256 bytes completed.
C14_Witness ==
    /\ d_st = "run"
    /\ d_cmd.b \in {252, 253, 254}
    /\ d_cmd.op = 7
    /\ d_cmd.size > 256
    /\ d_pos = d_cmd.operands + 1
    /\ Byte(d_in, d_cmd.operands) \in 1..(Len(d_out) - d_cmd.size)

\* C15: SigmaFill with operand x and length n appends (x + i) mod 256 for
\* i = 0..n-1, for n up to 1024.
C15_SigmaFill ==
    [][(d_st = "run" /\ d_cmd'.op = 3 /\ Avail(d_in, d_cmd'.operands, 1)) =>
          /\ d_st' = "run"
          /\ d_pos' = d_cmd'.operands + 1
          /\ Len(d_out') = Len(d_out) + d_cmd'.size
          /\ SubSeq(d_out', 1, Len(d_out)) = d_out
          /\ \A i \in 0..(d_cmd'.size - 1) :
                d_out'[Len(d_out) + i + 1]
                  = (Byte(d_in, d_cmd'.operands) + i) % 256]_vars

\* A SigmaFill of 1024 bytes from 0xFF: it wraps at once and repeats with
\* period 256.
C15_Witness ==
    /\ d_st = "run"
    /\ d_cmd.op = 3
    /\ d_cmd.size = 1024
    /\ Byte(d_in, d_cmd.operands) = 255
    /\ Len(d_out) = 1024
    /\ d_out[1] = 255
    /\ d_out[2] = 0
    /\ d_out[258] = 0
    /\ d_out[1024] = 254

\* The operand bytes a command of the given op and size reads.
OperandBytes(op, size) ==
    CASE op = 0 -> size
      [] op \in {2, 4, 5} -> 2
      [] OTHER -> 1

\* The input ends before the iteration at d_pos has read all it reads: the
\* control byte, the size byte of an extended command, or the operands.
InputEndsInCommand ==
    LET b == Byte(d_in, d_pos)
        ext == b \div 32 = 7
        op == IF ext THEN (b \div 4) % 8 ELSE b \div 32
        size == IF ext THEN ((b % 4) * 256) + Byte(d_in, d_pos + 1) + 1
                       ELSE (b % 32) + 1
        header == IF ext THEN 2 ELSE 1
    IN  \/ ~Avail(d_in, d_pos, 1)
        \/ b # 255 /\ ~Avail(d_in, d_pos, header + OperandBytes(op, size))

\* C16: when the input ends before a terminator is read, in control-byte
\* position or inside a command, decompress returns Err and no output.
C16_ShortInput ==
    /\ [][(d_st = "run" /\ InputEndsInCommand) =>
            (d_st' = "err" /\ d_out' = <<>>)]_vars
    /\ [](d_st = "ok" => \E i \in 0..(d_in.len - 1) : Byte(d_in, i) = 255)

\* An input that ended inside the operands of a DirectCopy, after three
\* bytes of output had been produced.
C16_Witness ==
    /\ d_st = "err"
    /\ d_out = <<>>
    /\ d_cmd.op = 0
    /\ d_cmd.operands >= 5
    /\ d_in.len > d_cmd.operands

\* The command read at d_pos has all its bytes and refers to a position the
\* output does not have: an absolute address at or past its end, or a
\* distance d that is 0 or more than its length.
BadBackReference ==
    /\ d_st = "run"
    /\ ~InputEndsInCommand
    /\ \/ d_cmd'.op \in {4, 5} /\ read_u16(d_in, d_cmd'.operands) >= Len(d_out)
       \/ d_cmd'.op \in {6, 7} /\ Byte(d_in, d_cmd'.operands) > Len(d_out)
       \/ d_cmd'.op \in {6, 7} /\ Byte(d_in, d_cmd'.operands) = 0

\* C17: a LibraryCopy, XorCopy, SubtractCopy or extended-7 command that
\* refers to an output position that does not exist makes decompress
\* return an error as its result, with no output.
C17_BadBackReferenceIsError ==
    [][BadBackReference => (d_st' = "err" /\ d_out' = <<>>)]_vars

\* What holds of the code: such a command never produces output, and the
\* call ends in a panic.
C17_BadBackReferencePanics ==
    [][BadBackReference => (d_st' = "panic" /\ d_out' = <<>>)]_vars

\* C18: for every offset x in 0x8000..0xFFFF, rom_addr!(0x8f, x) is
\* ((0x8F - 0x80) << 15) + (x - 0x8000) and rom_addr_to_snes16! of it is x
\* again; rom_addr!(0x8f, 0x93fe) is 0x793FE.
C18_RoundTrip ==
    (w_out.kind = "pointer" /\ w_in.v >= 32768) =>
        /\ w_out.st = "ok"
        /\ w_out.rom = (15 * 32768) + (w_in.v - 32768)
        /\ w_out.rom \in 491520..524287
        /\ w_out.snes16 = w_in.v
        /\ (w_in.v = 37886 => w_out.rom = 496638)

\* The address of 0x93FE was computed and mapped back.
C18_Witness ==
    /\ w_out.kind = "pointer"
    /\ w_in.v = 37886
    /\ w_out.rom = 496638
    /\ w_out.snes16 = 37886

\* 1 for TRUE and 0 for FALSE.
Bit(flag) == IF flag THEN 1 ELSE 0

\* The wire value a block word was read from.
Wire == w_in.bytes[1] + (256 * w_in.bytes[2])

\* C19: load_block_info succeeds on every 16-bit wire value v, and the
\* fields it returns are the low ten bits, bit 10, bit 11 and the high four
\* bits of v, the high four bits always naming a BlockType.
C19_BlockInfo ==
    (w_out.kind = "block" /\ Len(w_in.bytes) = 2) =>
        /\ w_out.st = "ok"
        /\ w_out.info.tile_index \in 0..1023
        /\ w_out.info.ty \in 0..15
        /\ Wire = w_out.info.tile_index
                    + (1024 * Bit(w_out.info.x_flip))
                    + (2048 * Bit(w_out.info.y_flip))
                    + (4096 * w_out.info.ty)

\* The largest wire value was decoded: a BombableBlock with both flips.
C19_Witness ==
    /\ w_out.kind = "block"
    /\ w_in.bytes = <<255, 255>>
    /\ w_out.st = "ok"
    /\ w_out.info.ty = 15
    /\ w_out.info.x_flip
    /\ w_out.info.y_flip

\* C20 as stated: the wire value 0xB4A5 decodes to type 0xB, x_flip true,
\* y_flip true and tile_index 0x0A5.
C20_B4A5 ==
    (w_out.kind = "block" /\ w_in.bytes = <<165, 180>>) =>
        /\ w_out.st = "ok"
        /\ w_out.info.ty = 11
        /\ w_out.info.x_flip = TRUE
        /\ w_out.info.y_flip = TRUE
        /\ w_out.info.tile_index = 165

\* C20 amended: the wire value 0xB4A5 decodes to type 0xB, x_flip true,
\* y_flip false (0xB4A5 & 0x800 = 0) and tile_index 0x0A5.
C20_B4A5Amended ==
    (w_out.kind = "block" /\ w_in.bytes = <<165, 180>>) =>
        /\ w_out.st = "ok"
        /\ w_out.info.ty = 11
        /\ w_out.info.x_flip = TRUE
        /\ w_out.info.y_flip = FALSE
        /\ w_out.info.tile_index = 165

\* The wire value 0xB4A5 was decoded.
C20_Witness ==
    /\ w_out.kind = "block"
    /\ w_in.bytes = <<165, 180>>
    /\ w_out.st = "ok"

\* The door slots that level data ld asks for: the largest BTS byte of its
\* DoorBlock cells plus one.
DoorSlots(ld) ==
    MaxOf({ ld.bts[i] : i \in { j \in 1..Len(ld.layer_1) :
                                  ld.layer_1[j].ty = DoorBlock } }) + 1

\* The largest DoorSlots over the states of room p of the model m.
SlotsOf(m, p) ==
    MaxOf({ DoorSlots(m.level_data[m.room_mdb[p].states[i].data.level_data]) :
              i \in 1..Len(m.room_mdb[p].states) })

\* The destination of slot j (from 0) of the door list at door_list_ptr.
SlotDest(rom, door_list_ptr, j) ==
    read_u16(rom, rom_addr_value(131,
        read_u16(rom, rom_addr_value(143, door_list_ptr) + (2 * j))))

NonZero(d) == d # 0

\* The non-zero destinations among the first n slots, in slot order.
DestsRead(rom, door_list_ptr, n) ==
    SelectSeq([j \in 1..n |-> SlotDest(rom, door_list_ptr, j - 1)], NonZero)

DestsOf(mdb) == [i \in 1..Len(mdb.door_list) |-> mdb.door_list[i].dest_room_ptr]

\* C21: the door list of every loaded room holds the non-zero destinations
\* of the first N slots of its door list in the ROM, in order, N being the
\* largest num_doors over the room's states and num_doors of level data the
\* largest BTS byte of its DoorBlock cells plus one.
C21_SlotsRead ==
    \A p \in DOMAIN sm.room_mdb :
        /\ \A i \in 1..Len(sm.room_mdb[p].states) :
              \A ld \in {sm.level_data[sm.room_mdb[p].states[i].data.level_data]} :
                  ld.num_doors = DoorSlots(ld)
        /\ DestsOf(sm.room_mdb[p])
             = DestsRead(rom_data, sm.room_mdb[p].door_list_ptr, SlotsOf(sm, p))

\* A room of two states was loaded whose first state has DoorBlock cells
\* with BTS 0 and 3 and whose second has none: four slots were read, all
\* with a door, and the fifth slot has a door too.
C21_Witness ==
    /\ result = "ok"
    /\ \E p \in DOMAIN sm.room_mdb :
          /\ Len(sm.room_mdb[p].states) = 2
          /\ \A ld \in {sm.level_data[sm.room_mdb[p].states[1].data.level_data]} :
                /\ ld.bts = <<0, 3>>
                /\ ld.layer_1[1].ty = DoorBlock
                /\ ld.layer_1[2].ty = DoorBlock
          /\ sm.level_data[sm.room_mdb[p].states[2].data.level_data].num_doors = 1
          /\ Len(sm.room_mdb[p].door_list) = 4
          /\ SlotDest(rom_data, sm.room_mdb[p].door_list_ptr, 4) # 0

\* C22: the door list of every room of room_mdb is no longer than the
\* largest BTS byte of a DoorBlock cell over the room's states, and none of
\* its entries has destination 0.
C22_DoorListBound ==
    \A p \in DOMAIN sm.room_mdb :
        /\ Len(sm.room_mdb[p].door_list) <= SlotsOf(sm, p) - 1
        /\ \A i \in 1..Len(sm.room_mdb[p].door_list) :
              sm.room_mdb[p].door_list[i].dest_room_ptr # 0

\* C22 (amended): the door list of every room of room_mdb is no longer than
\* the largest BTS byte of a DoorBlock cell over the room's states plus one
\* (than 1 when no state has a DoorBlock cell), and none of its entries has
\* destination 0.
C22_DoorListBoundAmended ==
    \A p \in DOMAIN sm.room_mdb :
        /\ Len(sm.room_mdb[p].door_list) <= SlotsOf(sm, p)
        /\ \A i \in 1..Len(sm.room_mdb[p].door_list) :
              sm.room_mdb[p].door_list[i].dest_room_ptr # 0

\* A loaded room whose door list is as long as the bound allows, and
\* another whose list is shorter because a slot with destination 0 was
\* skipped.
C22_Witness ==
    /\ result = "ok"
    /\ \E p \in DOMAIN sm.room_mdb :
          /\ SlotsOf(sm, p) > 1
          /\ Len(sm.room_mdb[p].door_list) = SlotsOf(sm, p)
    /\ \E p \in DOMAIN sm.room_mdb :
          /\ Len(sm.room_mdb[p].door_list) < SlotsOf(sm, p)
          /\ \E j \in 0..(SlotsOf(sm, p) - 1) :
                SlotDest(rom_data, sm.room_mdb[p].door_list_ptr, j) = 0

\* No state of room p of the model m has a DoorBlock cell.
NoDoorCells(m, p) ==
    \A i \in 1..Len(m.room_mdb[p].states) :
        \A ld \in {m.level_data[m.room_mdb[p].states[i].data.level_data]} :
            \A j \in 1..Len(ld.layer_1) : ld.layer_1[j].ty # DoorBlock

\* C30: level data without a DoorBlock cell has num_doors 1; of a room all
\* of whose states are such, exactly the first door slot is read, and its
\* destination, when it is not 0 and not a room loaded before, is in the
\* frontier after the iteration unless it is the room itself.
C30_NoDoorBlock ==
    [][ \A p \in DOMAIN sm'.room_mdb \ DOMAIN sm.room_mdb :
          NoDoorCells(sm', p) =>
            /\ \A i \in 1..Len(sm'.room_mdb[p].states) :
                  sm'.level_data[sm'.room_mdb[p].states[i].data.level_data].num_doors
                    = 1
            /\ DestsOf(sm'.room_mdb[p])
                 = DestsRead(rom_data, sm'.room_mdb[p].door_list_ptr, 1)
            /\ \A d \in {SlotDest(rom_data, sm'.room_mdb[p].door_list_ptr, 0)} :
                  (d # 0 /\ d \notin DOMAIN sm.room_mdb /\ d # p)
                    => d \in rooms_to_check' ]_vars

\* The seed room was loaded: its two states have no DoorBlock cell but BTS
\* bytes other than 0, its first and second slot lead to a room not loaded,
\* its door list has the one door and the room behind it is in the
\* frontier.
C30_Witness ==
    /\ pc = "rooms"
    /\ DOMAIN sm.room_mdb = {RoomPtr(0)}
    /\ NoDoorCells(sm, RoomPtr(0))
    /\ Len(sm.room_mdb[RoomPtr(0)].states) = 2
    /\ sm.level_data[sm.room_mdb[RoomPtr(0)].states[1].data.level_data].bts
         = <<4, 2>>
    /\ SlotDest(rom_data, sm.room_mdb[RoomPtr(0)].door_list_ptr, 1) = RoomPtr(1)
    /\ DestsOf(sm.room_mdb[RoomPtr(0)]) = <<RoomPtr(1)>>
    /\ rooms_to_check = {RoomPtr(1)}

\* C29: whenever an iteration of the room loop starts, no key of room_mdb is
\* in rooms_to_check; no room pointer is picked twice, and every key of
\* room_mdb was inserted by the one iteration that picked it.
C29_FrontierDisjoint ==
    /\ pc = "rooms" => rooms_to_check \cap DOMAIN sm.room_mdb = {}
    /\ \A i, j \in 1..Len(picked) : picked[i] = picked[j] => i = j
    /\ DOMAIN sm.room_mdb \subseteq {picked[i] : i \in 1..Len(picked)}

\* The room loop is about to go on after it loaded a room that has a door
\* to itself and a room that has a door to a room loaded before it.
C29_Witness ==
    /\ pc = "rooms"
    /\ rooms_to_check # {}
    /\ \E p \in DOMAIN sm.room_mdb :
          \E i \in 1..Len(sm.room_mdb[p].door_list) :
              sm.room_mdb[p].door_list[i].dest_room_ptr = p
    /\ \E i, j \in 1..Len(picked) :
          /\ i < j
          /\ picked[j] \in DOMAIN sm.room_mdb
          /\ \E k \in 1..Len(sm.room_mdb[picked[j]].door_list) :
                sm.room_mdb[picked[j]].door_list[k].dest_room_ptr = picked[i]

\* The non-zero destinations of the door slots read for room p.
Edges(p) ==
    IF p \in DOMAIN sm.room_mdb
    THEN { SlotDest(rom_data, sm.room_mdb[p].door_list_ptr, j) :
             j \in 0..(SlotsOf(sm, p) - 1) } \ {0}
    ELSE {}

\* The room pointers reachable from those of S.
RECURSIVE ReachFrom(_)
ReachFrom(S) ==
    LET n == S \cup UNION { Edges(p) : p \in S }
    IN  IF n = S THEN S ELSE ReachFrom(n)

\* C28: after a successful load the keys of room_mdb are the room pointers
\* reachable from 0x91F8 through the non-zero destinations of the door
\* slots read for each room.
C28_KeysAreReachable ==
    result = "ok" => DOMAIN sm.room_mdb = ReachFrom({37368})

\* A load that succeeded with the seed room alone: its first slot leads to
\* itself, and a slot that was not read leads to a room that was not
\* loaded.
C28_Witness ==
    /\ result = "ok"
    /\ DOMAIN sm.room_mdb = {37368}
    /\ SlotDest(rom_data, sm.room_mdb[37368].door_list_ptr, 0) = 37368
    /\ \E j \in SlotsOf(sm, 37368)..(NumSlots - 1) :
          SlotDest(rom_data, sm.room_mdb[37368].door_list_ptr, j)
            \notin DOMAIN sm.room_mdb \cup {0}

\* The number of operand bytes that follow the selector sel on the wire.
OperandLen(sel) ==
    CASE sel = 58859 -> 2
      [] sel \in {58898, 58921} -> 1
      [] OTHER -> 0

\* The condition list at offset a of the ROM as it lies on the wire: for
\* each condition its selector, its operand and the offset after it, up to
\* and with Default (0xE5E6).
RECURSIVE WireConds(_, _)
WireConds(rom, a) ==
    LET sel == read_u16(rom, a)
        n == OperandLen(sel)
        c == [sel |-> sel,
              arg |-> CASE n = 2 -> read_u16(rom, a + 2)
                        [] n = 1 -> Byte(rom, a + 2)
                        [] OTHER -> 0,
              after |-> a + 2 + n]
    IN  IF sel = 58854 THEN <<c>> ELSE <<c>> \o WireConds(rom, a + 4 + n)

\* The condition list of the room at pointer p of bank 0x8F.
WireOf(p) == WireConds(rom_data, rom_addr_value(143, p) + 11)

\* C23: the states of every room of room_mdb are the conditions of its list
\* in wire order, the last of them Default and none before it; the data of
\* every state but the last is the state data at the bank 0x8F pointer that
\* follows its condition.
C23_StatesInWireOrder ==
    \A p \in DOMAIN sm.room_mdb :
        \A w \in {WireOf(p)}, states \in {sm.room_mdb[p].states} :
            /\ states # <<>>
            /\ Len(states) = Len(w)
            /\ states[Len(states)].condition.tag = "Default"
            /\ \A i \in 1..Len(states) :
                  /\ states[i].condition.tag = StateConditionValue(w[i].sel)
                  /\ states[i].condition.arg = w[i].arg
                  /\ i < Len(states) =>
                        /\ states[i].condition.tag # "Default"
                        /\ states[i].data =
                             load_state_data(rom_data,
                                 rom_addr_value(143,
                                     read_u16(rom_data, w[i].after))).data

\* A loaded room of three states: DoorPointerIs, HasMorphBall and Default,
\* with three different level data pointers.
C23_Witness ==
    /\ result = "ok"
    /\ \E p \in DOMAIN sm.room_mdb :
          \A states \in {sm.room_mdb[p].states} :
              /\ Len(states) = 3
              /\ states[1].condition = [tag |-> "DoorPointerIs", arg |-> 4660]
              /\ states[2].condition.tag = "HasMorphBall"
              /\ states[1].data.level_data # states[2].data.level_data
              /\ states[2].data.level_data # states[3].data.level_data
              /\ states[1].data.level_data # states[3].data.level_data

\* The offset after the Default selector of the room at pointer p:
\* rom_of(0x8F, p) + 11 + the bytes of the condition list.
TailOf(p) == WireOf(p)[Len(WireOf(p))].after

\* C24: the data of the Default state of every room of room_mdb is the
\* state data at the offset after the Default selector, also when that
\* offset is past the end of bank 0x8F.
C24_DefaultDataAtTail ==
    \A p \in DOMAIN sm.room_mdb :
        sm.room_mdb[p].states[Len(sm.room_mdb[p].states)].data
          = load_state_data(rom_data, TailOf(p)).data

\* C24 within the bank: the same for the rooms whose tail offset is in bank
\* 0x8F; for the others the data is that at the tail offset less 0x8000.
C24_DefaultDataWraps ==
    \A p \in DOMAIN sm.room_mdb :
        sm.room_mdb[p].states[Len(sm.room_mdb[p].states)].data
          = load_state_data(rom_data,
                IF TailOf(p) < rom_addr_value(144, 32768)
                THEN TailOf(p) ELSE TailOf(p) - 32768).data

\* C25: load_room_data on L >= 2 bytes whose first word is w, with
\* num_blocks = w \div 2, fails with "wrong sized room data" exactly when
\* L - 2 is neither num_blocks * 3 nor num_blocks * 5; otherwise it succeeds
\* with num_blocks cells in layer_1 and in bts, and layer_2 is present, with
\* num_blocks cells, exactly when L - 2 = num_blocks * 5.
C25_RoomDataSize ==
    (w_out.kind = "level" /\ Len(w_in.bytes) >= 2) =>
        \A L \in {Len(w_in.bytes)},
           nb \in {(w_in.bytes[1] + (256 * w_in.bytes[2])) \div 2} :
            IF L - 2 # nb * 3 /\ L - 2 # nb * 5
            THEN w_out.res = Fail("err", "wrong sized room data")
            ELSE /\ w_out.res.st = "ok"
                 /\ Len(w_out.res.room.layer_1) = nb
                 /\ Len(w_out.res.room.bts) = nb
                 /\ (w_out.res.room.layer_2 # <<>>) <=> (L - 2 = nb * 5)
                 /\ w_out.res.room.layer_2 # <<>> =>
                       Len(w_out.res.room.layer_2[1]) = nb

\* Two blocks in eight bytes: one layer.
C25_Witness ==
    /\ w_out.kind = "level"
    /\ Len(w_in.bytes) = 8
    /\ w_in.bytes[1] = 5
    /\ w_out.res.st = "ok"
    /\ Len(w_out.res.room.layer_1) = 2
    /\ w_out.res.room.layer_2 = <<>>

\* C27: after de_planar_tiles the packed accessor gives, for every whole
\* 32-byte tile and every (x, y), the value whose bit k is bit 7 - x of the
\* original byte y * 2 + (k & 1) + (k >> 1) * 16 of the same tile; the
\* buffer keeps its length and the bytes after the last whole tile.
C27_DePlanar ==
    w_out.kind = "tiles" =>
        /\ Len(w_out.data) = Len(w_in.bytes)
        /\ \A i \in 1..Len(w_in.bytes) :
              i > (Len(w_in.bytes) \div 32) * 32 => w_out.data[i] = w_in.bytes[i]
        /\ \A t \in 0..((Len(w_in.bytes) \div 32) - 1), x \in 0..7, y \in 0..7,
              k \in 0..3 :
              (TileRenderer_get_pixel(w_out.data, 32 * t, x, y) \div (2 ^ k)) % 2
                = (w_in.bytes[(32 * t) + (y * 2) + (k % 2) + ((k \div 2) * 16) + 1]
                     \div (2 ^ (7 - x))) % 2

\* Two tiles and three trailing bytes: bit 2 of byte 17 of the second tile
\* became bit 2 of the pixel (5, 0) of that tile, the high nibble of its
\* byte 2.
C27_Witness ==
    /\ w_out.kind = "tiles"
    /\ Len(w_in.bytes) = 67
    /\ w_in.bytes[32 + 16 + 1] = 4
    /\ w_out.data[32 + 2 + 1] = 64
    /\ w_out.data[67] = 255

\* The block index of the last call is past both tile tables.
OutOfRange(R, index) == index * 4 >= Len(R.cre_table) + Len(R.sce_table)

\* C26: a call of render_block with a block index k such that
\* k * 4 >= cre_entries + sce_entries returns the out-of-range error and
\* draws nothing; no call that fails changes the renderer; and a call made
\* after nothing but failed calls gives the result, and draws the pixels,
\* that it gives and draws on the renderer and the image as they were
\* before those calls.
C26_OutOfRange ==
    [][ \A c \in {r_out'[Len(r_out')]} :
          /\ OutOfRange(renderer, c.args.index) =>
                /\ c.st = "err"
                /\ c.why = "tile index out of range"
                /\ img' = img
          /\ c.st # "ok" => renderer' = renderer
          /\ (\A i \in 1..Len(r_out) : r_out[i].st # "ok") =>
                \A fresh \in {render_block(renderer', Blank, c.args.index,
                                           c.args.x, c.args.y, c.args.flip_h,
                                           c.args.flip_v)} :
                    /\ c.st = fresh.st
                    /\ c.why = fresh.why
                    /\ \A p \in DOMAIN Blank :
                          fresh.img[p] # Blank[p] => img'[p] = fresh.img[p] ]_vars

\* A call past the tables failed after a call that drew a block, and the
\* image is as that call left it.
C26_Witness ==
    /\ Len(r_out) = 2
    /\ r_out[1].st = "ok"
    /\ OutOfRange(renderer, r_out[2].args.index)
    /\ Len(renderer.cre_table) + Len(renderer.sce_table) > 0
    /\ r_out[2].st = "err"
    /\ \E p \in DOMAIN img : img[p] # <<0, 0, 0, 0>>

====
